---- MODULE Spec2Model ----
(***************************************************************************)
(* Verification model of the ai-tool-report reconciliation and            *)
(* aggregation engine: identity matching (src/common/name-variations.js,  *)
(* src/common/org.js, src/reporting/ReportingService.js), acceptance-rate  *)
(* and seat analysis (src/github/services/GitHubDiagnosticService.js),     *)
(* Cursor window summaries (src/cursor/aggregate.js,                       *)
(* src/cursor/services/CursorReportingService.js), the one-shot report    *)
(* run (bin/ai-metrics-report.js), the user-lookup and login-email merges  *)
(* (src/github/services/GitHubUserService.js), the retry loop of          *)
(* src/cursor/services/CursorBaseService.js, and the jobs and file        *)
(* endpoints of the dashboard server (server/index.js).                    *)
(*                                                                         *)
(* Each component has its own variables and its own specification; a      *)
(* specification keeps the other components' variables at their idle      *)
(* value.                                                                  *)
(***************************************************************************)
EXTENDS Integers, Sequences, FiniteSets, TLC

VARIABLES
    \* ---- identity matching (name-variations.js, ReportingService.js) ----
    NAME_GROUPS,      \* the parsed name-groups.json: a sequence of groups of names
    nameGroupsFile,   \* src/config/name-groups.json when the module is imported
    loaderPc,         \* the import of name-variations.js: "start" | "loaded" |
                      \* "crashed"
    name1, name2,     \* the two arguments of a call of areNameVariations
    variationResult,  \* <<>> before the call, then <<areNameVariations(name1, name2),
                      \* areNameVariations(name2, name1)>>
    csvNames,         \* the name cells (values[0]) of the lookup CSV rows, as read
    organization,     \* orgData.organization: the roster nodes
    allUsers,         \* loadUserLookupData(): the loaded names
    filteredUsers,    \* filterUsersToOrg(): the names kept
    rosterPc,         \* "start" | "loaded" | "filtered"
    \* ---- calculateAcceptanceMetrics (GitHubDiagnosticService.js) ----
    metricsPc,            \* the loop the function is in: "start" | "days" |
                          \* "editors" | "models" | "languages" | "done"
    daysSeen,             \* entries of metricsData.data visited so far
    languagesSeen,        \* language entries visited so far
    totalLinesSuggested,  \* the four accumulators of lines 537-540
    totalLinesAccepted,
    totalSuggestions,
    totalAcceptances,
    metricsResult,        \* the returned object; <<>> before the return
    \* ---- window summary (aggregate.js, CursorReportingService.js) ----
    monthlyActivity,      \* the latest monthly activity snapshot
    timeZone,             \* offset of the process's local time from UTC, hours
    windowPc,             \* "start" | "aggregateWindow" | "generateWindowSummary"
    windowOutcome,        \* "none" | "written" | "null" | "threw"
    windowCsv,            \* the rows of cursor_window_usage.csv
    \* ---- seat analysis (ReportingService.js, GitHubDiagnosticService.js) ----
    seatList,             \* seatData.seats of the seat snapshot
    seatNow,              \* the wall clock when an analysis computes its cutoff
    copilotRuns,          \* what the runs of analyzeCopilotActivity returned
    pastDaysRuns,         \* how the runs of getActiveUsersInPastDays ended
    \* ---- the report entry points (ReportingService.js) ----
    reportKind,           \* the entry point called: "activeUsers" | "adoption" |
                          \* "recent"
    reportFiles,          \* what is on disk: roster, lookup, copilot, cursor
    reportPc,             \* "start" | "copilot" | "cursor" | "cursorLoop" |
                          \* "stats" | "adoption" | "save" | "done" | "threw"
    reportOrg,            \* orgData.organization
    reportUsers,          \* filteredUsers
    copilotAnalysis,      \* what analyzeCopilotActivity returned
    cursorAnalysis,       \* analyzeCursorActivity: cutoff, sets, records read
    reportStats,          \* <<stats>> once calculateComprehensiveStats ran
    reportResult,         \* the returned object and the two files written
    snapshotAges,         \* per snapshot read: <<>> or <<hours since its mtime>>
    reportWarnings,       \* what console.warn printed during the call
    promptResponse,       \* <<>> or <<what the user typed at the overwrite prompt>>
    \* ---- the roster traversals of org.js, call by call ----
    rosterGraph,          \* the nodes passed in: names and directReports
    traversal,            \* the function called: "extractOrgUsers" |
                          \* "countTotalRDPeople" | "extractEngineeringTeam"
    callStack,            \* per nested call: the node whose directReports are
                          \* iterated (0 for the organization array) and the
                          \* position of the iteration
    collected,            \* the Set of names the function fills
    peopleCount,          \* count of countTotalRDPeople
    traversalPc,          \* "running" | "returned" | "stackOverflow"
    \* ---- aggregateMonthly / generateMonthlySummary ----
    monthlyFunction,      \* "aggregateMonthly" | "generateMonthlySummary"
    monthlyZone,          \* process.env.TZ, in hours
    snapshotDays,         \* per file opened: the (user, month, UTC day) of the
                          \* dated records read from it
    rowsRead,             \* the records read from the file that is open
    monthlyRecords,       \* the Map monthlyRecords: key -> totals
    monthlyPc,            \* "files" | "records" | "written" | "threw" | "null"
    monthlyCsv,           \* the rows written
    \* ---- the lookup merges of GitHubUserService.js ----
    mergeFunction,        \* "generateUserLookupCSV" | "buildLoginEmailMap"
    existingFile,         \* <<>> or <<the lines of the CSV file on disk>>
    mergeLogins,          \* usernames / logins: the sorted logins of the seat files
    nameCache,            \* this.nameCache: login -> name fetched from the API
    existingMap,          \* existingMap: login -> the cell loaded from the file
    mergeRows,            \* the entries (login, cell) in the order they are written
    mergePos,             \* logins visited by the merge loop
    mergeStats,           \* the counters of the merge loop
    mergePc,              \* "start" | "merge" | "save" | "done"
    savedFile,            \* the lines written
    \* ---- CursorBaseService.safeRequest ----
    maxRetries,           \* options.maxRetries
    delayMs,              \* options.delayMs
    attempt,              \* the loop variable
    requestCalls,         \* how many times requestFn was invoked
    sleeps,               \* the delays slept, in order
    lastError,            \* <<>> (undefined) or <<the error caught last>>
    requestPc,            \* "loop" | "sleep" | "returned" | "threw"
    requestThrown,        \* <<>> or <<the error safeRequest threw>>
    \* ---- the dashboard jobs (server/index.js) ----
    serverAlive,          \* FALSE once process.exit was called
    scheduledJob,         \* running, started, finished, error, logs
    cursorDailyJob,       \* running, started, finished, error, logs
    jobRuns,              \* per job: the position of every invocation of its run
                          \* function that has not returned
    lastResponse,         \* what the last request handler or cron tick answered
    \* ---- the dashboard file endpoints (server/index.js) ----
    serveRequest,         \* <<>> or the request: endpoint and parameters
    serveResponse,        \* <<>> or the status and the file whose content was sent
    \* ---- runOneShotReport (bin/ai-metrics-report.js) ----
    runEnv,               \* CURSOR_API_KEY set, skipPrompt, files on disk
    runPc,                \* "init" | "call" | "await" | "prereq" | "prompt" |
                          \* "summary" | "returned" | "cancelled" | "exit1"
    runStep,              \* the step being called or awaited, 0 otherwise
    stepStatus,           \* per step: "notStarted" | "running" | "ok" | "failed"
    rosterStub            \* ensureReportingPrerequisites wrote the stub roster

namesVars == <<NAME_GROUPS, nameGroupsFile, loaderPc, name1, name2, variationResult>>
rosterVars == <<csvNames, organization, allUsers, filteredUsers, rosterPc>>
metricsVars == <<metricsPc, daysSeen, languagesSeen, totalLinesSuggested,
                 totalLinesAccepted, totalSuggestions, totalAcceptances,
                 metricsResult>>
windowVars == <<monthlyActivity, timeZone, windowPc, windowOutcome, windowCsv>>
seatVars == <<seatList, seatNow, copilotRuns, pastDaysRuns>>
reportVars == <<reportKind, reportFiles, reportPc, reportOrg, reportUsers,
                copilotAnalysis, cursorAnalysis, reportStats, reportResult,
                snapshotAges, reportWarnings, promptResponse>>
traversalVars == <<rosterGraph, traversal, callStack, collected, peopleCount,
                   traversalPc>>
monthlyVars == <<monthlyFunction, monthlyZone, snapshotDays, rowsRead,
                 monthlyRecords, monthlyPc, monthlyCsv>>
mergeVars == <<mergeFunction, existingFile, mergeLogins, nameCache, existingMap,
               mergeRows, mergePos, mergeStats, mergePc, savedFile>>
requestVars == <<maxRetries, delayMs, attempt, requestCalls, sleeps, lastError,
                 requestPc, requestThrown>>
jobVars == <<serverAlive, scheduledJob, cursorDailyJob, jobRuns, lastResponse>>
serveVars == <<serveRequest, serveResponse>>
runVars == <<runEnv, runPc, runStep, stepStatus, rosterStub>>
vars == <<namesVars, rosterVars, metricsVars, windowVars, seatVars, reportVars,
          runVars, traversalVars, monthlyVars, mergeVars, requestVars, jobVars,
          serveVars>>

\* what a component leaves alone: the state of the other components
exceptNames == <<rosterVars, metricsVars, windowVars, seatVars, reportVars, runVars,
                 traversalVars, monthlyVars,
                 mergeVars, requestVars, jobVars, serveVars>>
exceptRoster == <<namesVars, metricsVars, windowVars, seatVars, reportVars, runVars,
                 traversalVars, monthlyVars,
                 mergeVars, requestVars, jobVars, serveVars>>
exceptMetrics == <<namesVars, rosterVars, windowVars, seatVars, reportVars, runVars,
                 traversalVars, monthlyVars,
                 mergeVars, requestVars, jobVars, serveVars>>
exceptWindow == <<namesVars, rosterVars, metricsVars, seatVars, reportVars, runVars,
                 traversalVars, monthlyVars,
                 mergeVars, requestVars, jobVars, serveVars>>
exceptSeats == <<namesVars, rosterVars, metricsVars, windowVars, reportVars, runVars,
                 traversalVars, monthlyVars,
                 mergeVars, requestVars, jobVars, serveVars>>
exceptReport == <<namesVars, rosterVars, metricsVars, windowVars, seatVars, runVars,
                 traversalVars, monthlyVars,
                 mergeVars, requestVars, jobVars, serveVars>>
exceptRun == <<namesVars, rosterVars, metricsVars, windowVars, seatVars, reportVars,
                 traversalVars, monthlyVars,
                 mergeVars, requestVars, jobVars, serveVars>>
exceptTraversal == <<namesVars, rosterVars, metricsVars, windowVars, seatVars,
                     reportVars, runVars, monthlyVars,
                 mergeVars, requestVars, jobVars, serveVars>>
exceptMonthly == <<namesVars, rosterVars, metricsVars, windowVars, seatVars,
                   reportVars, runVars, traversalVars,
                 mergeVars, requestVars, jobVars, serveVars>>

exceptMerge == <<namesVars, rosterVars, metricsVars, windowVars, seatVars, reportVars,
                 runVars, traversalVars, monthlyVars, requestVars, jobVars, serveVars>>
exceptRequest == <<namesVars, rosterVars, metricsVars, windowVars, seatVars,
                   reportVars, runVars, traversalVars, monthlyVars, mergeVars, jobVars,
                   serveVars>>
exceptJobs == <<namesVars, rosterVars, metricsVars, windowVars, seatVars, reportVars,
                runVars, traversalVars, monthlyVars, mergeVars, requestVars, serveVars>>
exceptServe == <<namesVars, rosterVars, metricsVars, windowVars, seatVars, reportVars,
                 runVars, traversalVars, monthlyVars, mergeVars, requestVars, jobVars>>
-----------------------------------------------------------------------------
(***************************************************************************)
(* Text.  A string is a sequence of characters; a character is one of the *)
(* values below.  " " is the space, "acute" stands for the combining      *)
(* acute accent U+0301, "a_acute" for the precomposed U+00E1 and "A" for   *)
(* an upper-case letter.                                                   *)
(***************************************************************************)
SP == " "
Letters == {"a", "b"}
Chars == Letters \cup {"A", "a_acute", "acute", SP}

\* String.prototype.toLowerCase, one character
LowerChar(c) == IF c = "A" THEN "a" ELSE c

\* String.prototype.toLowerCase
ToLowerCase(s) == [i \in 1..Len(s) |-> LowerChar(s[i])]

\* String.prototype.normalize('NFD'), one character: canonical decomposition
NFDChar(c) == IF c = "a_acute" THEN <<"a", "acute">> ELSE <<c>>

RECURSIVE NFD(_)
NFD(s) == IF s = <<>> THEN <<>> ELSE NFDChar(Head(s)) \o NFD(Tail(s))

\* replace(/[\u0300-\u036f]/g, ''): drop the combining marks
RECURSIVE StripMarks(_)
StripMarks(s) ==
    IF s = <<>> THEN <<>>
    ELSE IF Head(s) = "acute" THEN StripMarks(Tail(s))
         ELSE <<Head(s)>> \o StripMarks(Tail(s))

\* org.js normalizeText: NFD, strip combining marks, lower-case (no trim)
normalizeText(text) == ToLowerCase(StripMarks(NFD(text)))

\* String.prototype.trim: strip leading and trailing white space
RECURSIVE TrimStart(_)
TrimStart(s) == IF s # <<>> /\ Head(s) = SP THEN TrimStart(Tail(s)) ELSE s

RECURSIVE TrimEnd(_)
TrimEnd(s) ==
    IF s # <<>> /\ s[Len(s)] = SP THEN TrimEnd(SubSeq(s, 1, Len(s) - 1)) ELSE s

Trim(s) == TrimEnd(TrimStart(s))

\* String.prototype.split(' '): the pieces between single spaces, empty
\* pieces included ("a " gives <<"a", "">>, "" gives <<"">>)
RECURSIVE SplitSpace(_)
SplitSpace(s) ==
    IF \A i \in 1..Len(s) : s[i] # SP THEN <<s>>
    ELSE LET i == CHOOSE k \in 1..Len(s) :
                      s[k] = SP /\ \A j \in 1..(k - 1) : s[j] # SP
         IN  <<SubSeq(s, 1, i - 1)>> \o SplitSpace(SubSeq(s, i + 1, Len(s)))

\* Array.prototype.includes
Includes(arr, x) == \E i \in 1..Len(arr) : arr[i] = x

\* the strings of 1..n characters of alphabet A
StringsUpTo(A, n) == UNION {[1..k -> A] : k \in 1..n}

-----------------------------------------------------------------------------
(***************************************************************************)
(* name-variations.js                                                      *)
(***************************************************************************)

\* generateNameVariations, for one key: NAME_VARIATIONS[key].  `found` is
\* FALSE where the lookup gives undefined.  The loops assign
\* variations[name.toLowerCase()] group after group, name after name, so the
\* last group holding the key decides its entry.
NameVariationsOf(groups, key) ==
    LET holders == {g \in 1..Len(groups) :
                       \E i \in 1..Len(groups[g]) : ToLowerCase(groups[g][i]) = key}
    IN  IF holders = {} THEN [found |-> FALSE, list |-> <<>>]
        ELSE LET g == CHOOSE h \in holders : \A k \in holders : k <= h
                 others == SelectSeq(groups[g], LAMBDA n : ToLowerCase(n) # key)
             IN  [found |-> TRUE,
                  list |-> [i \in 1..Len(others) |-> ToLowerCase(others[i])]]

\* areNameVariations without the reverse lookup of lines 74-76
areNameVariationsOneWay(groups, n1, n2) ==
    IF n1 = <<>> \/ n2 = <<>> THEN FALSE
    ELSE LET normalizedName1 == Trim(ToLowerCase(n1))
             normalizedName2 == Trim(ToLowerCase(n2))
             variations1 == NameVariationsOf(groups, normalizedName1)
         IN  \/ normalizedName1 = normalizedName2
             \/ variations1.found /\ Includes(variations1.list, normalizedName2)

\* areNameVariations(name1, name2) against the table built from `groups`
areNameVariations(groups, n1, n2) ==
    IF n1 = <<>> \/ n2 = <<>> THEN FALSE
    ELSE LET normalizedName1 == Trim(ToLowerCase(n1))
             normalizedName2 == Trim(ToLowerCase(n2))
             variations1 == NameVariationsOf(groups, normalizedName1)
             variations2 == NameVariationsOf(groups, normalizedName2)
         IN  \/ normalizedName1 = normalizedName2
             \/ variations1.found /\ Includes(variations1.list, normalizedName2)
             \/ variations2.found /\ Includes(variations2.list, normalizedName1)

-----------------------------------------------------------------------------
(***************************************************************************)
(* ReportingService.js: roster inclusion                                   *)
(***************************************************************************)

\* org.js extractOrgUsers: processNode adds the node's normalized name and
\* recurses into directReports; a node without a name is skipped with its
\* reports.  The result is the `users` set.
RECURSIVE processNode(_), processNodes(_)
processNode(node) ==
    IF node.name = <<>> THEN {}
    ELSE {normalizeText(node.name)} \cup processNodes(node.directReports)

processNodes(nodes) ==
    IF nodes = <<>> THEN {}
    ELSE processNode(Head(nodes)) \cup processNodes(Tail(nodes))

extractOrgUsers(org) == processNodes(org)

\* matchUserByNameVariations(user, orgUsers)
matchUserByNameVariations(groups, userName, orgUsers) ==
    LET userParts == SplitSpace(normalizeText(userName))
    IN  IF Len(userParts) < 2 THEN FALSE
        ELSE LET userLast == userParts[Len(userParts)]
                 userFirst == userParts[1]
             IN  \E orgName \in orgUsers :
                    LET orgParts == SplitSpace(orgName)
                    IN  /\ Len(orgParts) >= 2
                        /\ userLast = orgParts[Len(orgParts)]
                        /\ \/ userFirst = orgParts[1]
                           \/ areNameVariations(groups, userFirst, orgParts[1])

\* the predicate of filterUsersToOrg's filter, for one user
InOrg(groups, userName, orgUsers) ==
    \/ normalizeText(userName) \in orgUsers
    \/ matchUserByNameVariations(groups, userName, orgUsers)

-----------------------------------------------------------------------------
(***************************************************************************)
(* Identity matching: inputs                                               *)
(***************************************************************************)
MaxGivenLen == 2
MaxNameLen == 3

\* A name of the table or an argument of areNameVariations
GivenNames == StringsUpTo({"a", "b", "A", SP}, MaxGivenLen)

\* name-groups.json as loaded: no group (also the fallback of lines 22-31),
\* one group, a group with an upper-case and a padded entry, and two groups
\* that share a name
GroupTables ==
    { <<>>,
      << <<(<<"a">>), (<<"b">>)>> >>,
      << <<(<<"A">>), (<<"b", SP>>)>> >>,
      << <<(<<"a">>), (<<"b">>)>>, <<(<<"b">>), (<<"a", "b">>)>> >> }

\* the name cells of the lookup CSV and the names of the roster nodes: they
\* begin with a letter; what follows is any text
LookupCells ==
    {s \in StringsUpTo({"a", "b", "A", "acute", SP}, MaxNameLen) :
        s[1] \in {"a", "b", "A"}}
RosterNames ==
    {s \in StringsUpTo({"a", "b", "a_acute", SP}, MaxNameLen) :
        s[1] \in {"a", "b", "a_acute"}}

NamesIdle ==
    /\ nameGroupsFile = <<>>
    /\ loaderPc = "loaded"
    /\ name1 = <<>>
    /\ name2 = <<>>
    /\ variationResult = <<>>

RosterIdle ==
    /\ csvNames = <<>>
    /\ organization = <<>>
    /\ allUsers = <<>>
    /\ filteredUsers = <<>>
    /\ rosterPc = "idle"

MetricsIdle ==
    /\ metricsPc = "idle"
    /\ daysSeen = 0
    /\ languagesSeen = 0
    /\ totalLinesSuggested = 0
    /\ totalLinesAccepted = 0
    /\ totalSuggestions = 0
    /\ totalAcceptances = 0
    /\ metricsResult = <<>>

WindowIdle ==
    /\ monthlyActivity = <<>>
    /\ timeZone = 0
    /\ windowPc = "idle"
    /\ windowOutcome = "none"
    /\ windowCsv = <<>>

SeatsIdle ==
    /\ seatList = <<>>
    /\ seatNow = 0
    /\ copilotRuns = <<>>
    /\ pastDaysRuns = <<>>

ReportIdle ==
    /\ reportKind = "none"
    /\ snapshotAges = <<>>
    /\ reportWarnings = {}
    /\ promptResponse = <<>>
    /\ reportFiles = <<>>
    /\ reportPc = "idle"
    /\ reportOrg = <<>>
    /\ reportUsers = <<>>
    /\ copilotAnalysis = <<>>
    /\ cursorAnalysis = <<>>
    /\ reportStats = <<>>
    /\ reportResult = <<>>

TraversalIdle ==
    /\ rosterGraph = <<>>
    /\ traversal = "none"
    /\ callStack = <<>>
    /\ collected = {}
    /\ peopleCount = 0
    /\ traversalPc = "idle"

MonthlyIdle ==
    /\ monthlyFunction = "none"
    /\ monthlyZone = 0
    /\ snapshotDays = <<>>
    /\ rowsRead = 0
    /\ monthlyRecords = <<>>
    /\ monthlyPc = "idle"
    /\ monthlyCsv = <<>>

MergeIdle ==
    /\ mergeFunction = "none"
    /\ existingFile = <<>>
    /\ mergeLogins = <<>>
    /\ nameCache = <<>>
    /\ existingMap = <<>>
    /\ mergeRows = <<>>
    /\ mergePos = 0
    /\ mergeStats = <<>>
    /\ mergePc = "idle"
    /\ savedFile = <<>>

RequestIdle ==
    /\ maxRetries = 0
    /\ delayMs = 0
    /\ attempt = 0
    /\ requestCalls = 0
    /\ sleeps = <<>>
    /\ lastError = <<>>
    /\ requestPc = "idle"
    /\ requestThrown = <<>>

JobsIdle ==
    /\ serverAlive = FALSE
    /\ scheduledJob = <<>>
    /\ cursorDailyJob = <<>>
    /\ jobRuns = <<>>
    /\ lastResponse = <<>>

ServeIdle ==
    /\ serveRequest = <<>>
    /\ serveResponse = <<>>

\* the components added after the report run are not in use
OthersIdle == MergeIdle /\ RequestIdle /\ JobsIdle /\ ServeIdle

RunIdle ==
    /\ runEnv = <<>>
    /\ runPc = "idle"
    /\ runStep = 0
    /\ stepStatus = <<>>
    /\ rosterStub = FALSE

(***************************************************************************)
(* areNameVariations called on two names                                   *)
(***************************************************************************)
CallAreNameVariations ==
    /\ loaderPc = "loaded"
    /\ variationResult = <<>>
    /\ variationResult' = <<areNameVariations(NAME_GROUPS, name1, name2),
                            areNameVariations(NAME_GROUPS, name2, name1)>>
    /\ UNCHANGED <<NAME_GROUPS, nameGroupsFile, loaderPc, name1, name2, exceptNames>>

InitVariations ==
    /\ NAME_GROUPS \in GroupTables
    /\ nameGroupsFile = <<>>
    /\ loaderPc = "loaded"
    /\ name1 \in GivenNames \cup {<<>>}
    /\ name2 \in GivenNames \cup {<<>>}
    /\ variationResult = <<>>
    /\ RosterIdle
    /\ MetricsIdle
    /\ WindowIdle
    /\ SeatsIdle
    /\ ReportIdle
    /\ RunIdle
    /\ TraversalIdle
    /\ MonthlyIdle
    /\ OthersIdle

NextVariations == CallAreNameVariations

SpecVariations == InitVariations /\ [][NextVariations]_vars

(***************************************************************************)
(* The import of name-variations.js: lines 18-31 read and parse            *)
(* src/config/name-groups.json, line 116 builds NAME_VARIATIONS.  A JSON   *)
(* value is a record tagged with its type.                                 *)
(***************************************************************************)
JNull == [json |-> "null"]
JObject == [json |-> "object"]
JNumber == [json |-> "number"]
JString(text) == [json |-> "string", text |-> text]
JArray(items) == [json |-> "array", items |-> items]

\* a table of groups written as JSON: an array of arrays of strings
GroupsJson(table) ==
    JArray([g \in 1..Len(table) |->
               JArray([i \in 1..Len(table[g]) |-> JString(table[g][i])])])

\* JSON that is no array of arrays of strings: null, an object such as
\* {"groups": []}, the empty string, [5], [["a", 5]], ["ab"]
OtherJsonValues ==
    { JNull, JObject, JString(<<>>), JArray(<<JNumber>>),
      JArray(<<JArray(<<JString(<<"a">>), JNumber>>)>>),
      JArray(<<JString(<<"a", "b">>)>>) }

\* the file: absent, not JSON, or JSON
NameGroupsFiles ==
    {[file |-> "missing"], [file |-> "notJson"]}
    \cup {[file |-> "json", value |-> v] :
             v \in {GroupsJson(t) : t \in GroupTables} \cup OtherJsonValues}

\* lines 19-31: JSON.parse(readFileSync(configPath)), [] when that throws
readNameGroups(file) ==
    IF file.file = "json" THEN file.value ELSE JArray(<<>>)

\* lines 43-47 for one group: for...of needs an iterable, group.filter an
\* array, name.toLowerCase and n.toLowerCase strings; an empty string is
\* iterated zero times
GroupThrows(group) ==
    CASE group.json = "array" ->
            \E i \in 1..Len(group.items) : group.items[i].json # "string"
      [] group.json = "string" -> group.text # <<>>
      [] OTHER -> TRUE

\* generateNameVariations, lines 39-52, throws a TypeError: NAME_GROUPS is
\* not iterable, or one of its elements makes the inner loop throw (the
\* elements of a non-empty string are its characters, which have no filter)
generateNameVariationsThrows(value) ==
    CASE value.json = "array" ->
            \E g \in 1..Len(value.items) : GroupThrows(value.items[g])
      [] value.json = "string" -> value.text # <<>>
      [] OTHER -> TRUE

\* NAME_GROUPS as the sequence of groups that line 42 and line 106 iterate
IteratedGroups(value) ==
    IF value.json = "string" THEN <<>>
    ELSE [g \in 1..Len(value.items) |->
             IF value.items[g].json = "string" THEN <<>>
             ELSE [i \in 1..Len(value.items[g].items) |->
                      value.items[g].items[i].text]]

\* the module's top level, lines 18-31 and 116.  When line 116 throws the
\* import fails and nothing of the module is reachable.
LoadNameVariationsModule ==
    /\ loaderPc = "start"
    /\ LET value == readNameGroups(nameGroupsFile)
       IN  IF generateNameVariationsThrows(value)
           THEN /\ loaderPc' = "crashed"
                /\ UNCHANGED NAME_GROUPS
           ELSE /\ loaderPc' = "loaded"
                /\ NAME_GROUPS' = IteratedGroups(value)
    /\ UNCHANGED <<nameGroupsFile, name1, name2, variationResult, exceptNames>>

InitLoader ==
    /\ NAME_GROUPS = <<>>
    /\ nameGroupsFile \in NameGroupsFiles
    /\ loaderPc = "start"
    /\ name1 \in GivenNames \cup {<<>>}
    /\ name2 \in GivenNames \cup {<<>>}
    /\ variationResult = <<>>
    /\ RosterIdle
    /\ MetricsIdle
    /\ WindowIdle
    /\ SeatsIdle
    /\ ReportIdle
    /\ RunIdle
    /\ TraversalIdle
    /\ MonthlyIdle
    /\ OthersIdle

NextLoader ==
    \/ LoadNameVariationsModule
    \/ CallAreNameVariations

SpecLoader == InitLoader /\ [][NextLoader]_vars

(***************************************************************************)
(* Roster inclusion: loadUserLookupData, then filterUsersToOrg             *)
(***************************************************************************)

\* loadUserLookupData lines 303-315: name: (values[0] || '').trim()
LoadUserLookupData ==
    /\ rosterPc = "start"
    /\ allUsers' = [i \in 1..Len(csvNames) |-> Trim(csvNames[i])]
    /\ rosterPc' = "loaded"
    /\ UNCHANGED <<exceptRoster, csvNames, organization, filteredUsers>>

\* filterUsersToOrg
FilterUsersToOrg ==
    /\ rosterPc = "loaded"
    /\ LET orgUsers == extractOrgUsers(organization)
       IN  filteredUsers' =
               SelectSeq(allUsers, LAMBDA u : InOrg(NAME_GROUPS, u, orgUsers))
    /\ rosterPc' = "filtered"
    /\ UNCHANGED <<exceptRoster, csvNames, organization, allUsers>>

InitRoster ==
    /\ NAME_GROUPS \in {GT \in GroupTables : Len(GT) <= 1}
    /\ NamesIdle
    /\ csvNames \in {<<c>> : c \in LookupCells}
    /\ organization \in {<<[name |-> n, directReports |-> <<>>]>> : n \in RosterNames}
    /\ allUsers = <<>>
    /\ filteredUsers = <<>>
    /\ rosterPc = "start"
    /\ MetricsIdle
    /\ WindowIdle
    /\ SeatsIdle
    /\ ReportIdle
    /\ RunIdle
    /\ TraversalIdle
    /\ MonthlyIdle
    /\ OthersIdle

NextRoster == LoadUserLookupData \/ FilterUsersToOrg

SpecRoster == InitRoster /\ [][NextRoster]_vars

-----------------------------------------------------------------------------
(***************************************************************************)
(* GitHubDiagnosticService.js: calculateAcceptanceMetrics                  *)
(*                                                                         *)
(* The function walks metricsData.data in four nested loops (days,        *)
(* editors, models, languages).  The model follows the walk: each action  *)
(* is one iteration or one loop exit, and the entry an iteration visits   *)
(* is drawn when it is visited.  An optional field is <<>> when absent and *)
(* <<v>> when present.                                                     *)
(***************************************************************************)
MaxDays == 2
MaxLanguageEntries == 2

\* a counter of a language entry as found in the payload
EventCounters == {<<>>, <<0>>, <<1>>, <<3>>}
LineCounters == {<<>>, <<2>>}

LanguageEntries ==
    [total_code_lines_suggested : LineCounters,
     total_code_lines_accepted : LineCounters,
     total_code_suggestions : EventCounters,
     total_code_acceptances : EventCounters]

\* x || 0 for an absent or numeric counter
OrZero(c) == IF c = <<>> THEN 0 ELSE c[1]

\* a JavaScript number printed with a fixed number of decimals: finite, as
\* the integer v of its last decimal place (hundredths for a percentage),
\* or NaN or Infinity
Num(v) == [kind |-> "num", v |-> v]
NaN == [kind |-> "NaN", v |-> 0]
Infinity == [kind |-> "Infinity", v |-> 0]

\* Math.round(((a / b) * 100) * 100) / 100 for a, b >= 0, in hundredths:
\* 0/0 is NaN and a/0 is Infinity; Math.round rounds half up
RoundedPercent(a, b) ==
    IF b = 0 THEN (IF a = 0 THEN NaN ELSE Infinity)
    ELSE Num((2 * a * 10000 + b) \div (2 * b))

\* lines 577-578 and 585-586 without the "> 0" test
AcceptanceRateUnguarded(accepted, suggested) == RoundedPercent(accepted, suggested)

\* lines 577-578 and 585-586: total > 0 ? (accepted / total) * 100 : 0, rounded
AcceptanceRate(accepted, suggested) ==
    IF suggested > 0 THEN RoundedPercent(accepted, suggested) ELSE Num(0)

\* lines 542-554: data is missing or not an array
ReturnNoData ==
    /\ metricsPc = "start"
    /\ metricsPc' = "done"
    /\ metricsResult' = <<[totalLinesSuggested |-> 0, totalLinesAccepted |-> 0,
                          totalSuggestions |-> 0, totalAcceptances |-> 0,
                          acceptanceRate |-> Num(0), lineAcceptanceRate |-> Num(0),
                          daysCovered |-> 0]>>
    /\ UNCHANGED <<daysSeen, languagesSeen, totalLinesSuggested, totalLinesAccepted,
                   totalSuggestions, totalAcceptances, exceptMetrics>>

\* line 557: data is an array, the loop over the days begins
EnterDays ==
    /\ metricsPc = "start"
    /\ metricsPc' = "days"
    /\ UNCHANGED <<daysSeen, languagesSeen, totalLinesSuggested, totalLinesAccepted,
                   totalSuggestions, totalAcceptances, metricsResult, exceptMetrics>>

\* lines 557-558: the next day; hasEditors is
\* dayData.copilot_ide_code_completions?.editors being there
NextDay(hasEditors) ==
    /\ metricsPc = "days"
    /\ daysSeen < MaxDays
    /\ daysSeen' = daysSeen + 1
    /\ metricsPc' = IF hasEditors THEN "editors" ELSE "days"
    /\ UNCHANGED <<languagesSeen, totalLinesSuggested, totalLinesAccepted,
                   totalSuggestions, totalAcceptances, metricsResult, exceptMetrics>>

\* lines 559-560: the next editor of the day, with or without models
NextEditor(hasModels) ==
    /\ metricsPc = "editors"
    /\ metricsPc' = IF hasModels THEN "models" ELSE "editors"
    /\ UNCHANGED <<daysSeen, languagesSeen, totalLinesSuggested, totalLinesAccepted,
                   totalSuggestions, totalAcceptances, metricsResult, exceptMetrics>>

\* line 559: the editors of the day are exhausted
EndEditors ==
    /\ metricsPc = "editors"
    /\ metricsPc' = "days"
    /\ UNCHANGED <<daysSeen, languagesSeen, totalLinesSuggested, totalLinesAccepted,
                   totalSuggestions, totalAcceptances, metricsResult, exceptMetrics>>

\* lines 561-562: the next model of the editor, with or without languages
NextModel(hasLanguages) ==
    /\ metricsPc = "models"
    /\ metricsPc' = IF hasLanguages THEN "languages" ELSE "models"
    /\ UNCHANGED <<daysSeen, languagesSeen, totalLinesSuggested, totalLinesAccepted,
                   totalSuggestions, totalAcceptances, metricsResult, exceptMetrics>>

\* line 561: the models of the editor are exhausted
EndModels ==
    /\ metricsPc = "models"
    /\ metricsPc' = "editors"
    /\ UNCHANGED <<daysSeen, languagesSeen, totalLinesSuggested, totalLinesAccepted,
                   totalSuggestions, totalAcceptances, metricsResult, exceptMetrics>>

\* lines 563-568: the next language entry is added to the four totals
NextLanguage(language) ==
    /\ metricsPc = "languages"
    /\ languagesSeen < MaxLanguageEntries
    /\ languagesSeen' = languagesSeen + 1
    /\ totalLinesSuggested' =
           totalLinesSuggested + OrZero(language.total_code_lines_suggested)
    /\ totalLinesAccepted' =
           totalLinesAccepted + OrZero(language.total_code_lines_accepted)
    /\ totalSuggestions' = totalSuggestions + OrZero(language.total_code_suggestions)
    /\ totalAcceptances' = totalAcceptances + OrZero(language.total_code_acceptances)
    /\ UNCHANGED <<metricsPc, daysSeen, metricsResult, exceptMetrics>>

\* line 563: the languages of the model are exhausted
EndLanguages ==
    /\ metricsPc = "languages"
    /\ metricsPc' = "models"
    /\ UNCHANGED <<daysSeen, languagesSeen, totalLinesSuggested, totalLinesAccepted,
                   totalSuggestions, totalAcceptances, metricsResult, exceptMetrics>>

\* lines 576-590: the days are exhausted; the rates and the returned object
ReturnMetrics ==
    /\ metricsPc = "days"
    /\ metricsPc' = "done"
    /\ metricsResult' =
           <<[totalLinesSuggested |-> totalLinesSuggested,
              totalLinesAccepted |-> totalLinesAccepted,
              totalSuggestions |-> totalSuggestions,
              totalAcceptances |-> totalAcceptances,
              acceptanceRate |-> AcceptanceRate(totalAcceptances, totalSuggestions),
              lineAcceptanceRate |->
                  AcceptanceRate(totalLinesAccepted, totalLinesSuggested),
              daysCovered |-> daysSeen]>>
    /\ UNCHANGED <<daysSeen, languagesSeen, totalLinesSuggested, totalLinesAccepted,
                   totalSuggestions, totalAcceptances, exceptMetrics>>

InitMetrics ==
    /\ NAME_GROUPS = <<>>
    /\ NamesIdle
    /\ RosterIdle
    /\ metricsPc = "start"
    /\ daysSeen = 0
    /\ languagesSeen = 0
    /\ totalLinesSuggested = 0
    /\ totalLinesAccepted = 0
    /\ totalSuggestions = 0
    /\ totalAcceptances = 0
    /\ metricsResult = <<>>
    /\ WindowIdle
    /\ SeatsIdle
    /\ ReportIdle
    /\ RunIdle
    /\ TraversalIdle
    /\ MonthlyIdle
    /\ OthersIdle

NextMetrics ==
    \/ ReturnNoData
    \/ EnterDays
    \/ \E hasEditors \in BOOLEAN : NextDay(hasEditors)
    \/ \E hasModels \in BOOLEAN : NextEditor(hasModels)
    \/ EndEditors
    \/ \E hasLanguages \in BOOLEAN : NextModel(hasLanguages)
    \/ EndModels
    \/ \E language \in LanguageEntries : NextLanguage(language)
    \/ EndLanguages
    \/ ReturnMetrics

SpecMetrics == InitMetrics /\ [][NextMetrics]_vars

-----------------------------------------------------------------------------
(***************************************************************************)
(* cursor/util.js: parseDate, iso; cursor/aggregate.js: aggregateWindow;   *)
(* CursorReportingService.js: generateWindowSummary                        *)
(*                                                                         *)
(* Time is counted in hours since the epoch: a timestamp of h hours is    *)
(* the JavaScript number h * 3600000.  A Date is [valid, t]; the null of  *)
(* parseDate is NullDate.                                                  *)
(***************************************************************************)
HoursPerDay == 24
MaxRecords == 2

\* 2001-09-08, 2001-09-09, 2001-09-10 and 2001-09-11 as days since the epoch
\* (31 years, 8 of them leap years, and 250 days after 2001-01-01)
Sep08 == 31 * 365 + 8 + 250
Sep09 == Sep08 + 1
Sep10 == Sep08 + 2
Sep11 == Sep08 + 3

\* record.date as found in a snapshot: absent, a "YYYY-MM-DD" string, a number
\* of milliseconds, a string of digits, or a string that is no date
DateValues ==
    {[type |-> "absent", t |-> 0], [type |-> "garbage", t |-> 0]}
    \cup {[type |-> "ymd", t |-> d * HoursPerDay] : d \in {Sep08, Sep09, Sep10}}
    \cup {[type |-> "number", t |-> h] :
             h \in {Sep09 * HoursPerDay, Sep10 * HoursPerDay + 23,
                    Sep11 * HoursPerDay + 1}}
    \cup {[type |-> "digits", t |-> Sep10 * HoursPerDay + 6]}

\* record.userId; "" stands for a missing one
UserIds == {"", "u1", "u2"}

ActivityRecords == [userId : UserIds, date : DateValues, isActive : BOOLEAN]

RecordLists == UNION {[1..k -> ActivityRecords] : k \in 0..MaxRecords}

\* process.env.TZ: UTC or five hours behind it
TimeZones == {0, 0 - 5}

NullDate == [kind |-> "null", valid |-> FALSE, t |-> 0]
InvalidDate == [kind |-> "date", valid |-> FALSE, t |-> 0]
DateAt(t) == [kind |-> "date", valid |-> TRUE, t |-> t]

\* util.js parseDate: a number and a string of digits are taken as
\* milliseconds, any other string has 'T00:00:00Z' appended, anything else
\* is null.  new Date of a string that is no date is an Invalid Date.
parseDate(v) ==
    CASE v.type = "number" -> DateAt(v.t)
      [] v.type = "digits" -> DateAt(v.t)
      [] v.type = "ymd" -> DateAt(v.t)
      [] v.type = "garbage" -> InvalidDate
      [] OTHER -> NullDate

\* date.getTime(): NaN for an Invalid Date
getTime(date) == [nan |-> ~date.valid, t |-> date.t]

\* date.toDateString(): the calendar day in local time ("Invalid Date" is
\* one more value, here the record with valid FALSE)
toDateString(date, tz) ==
    IF date.valid THEN [valid |-> TRUE, day |-> (date.t + tz) \div HoursPerDay]
    ELSE [valid |-> FALSE, day |-> 0]

\* the decimal digits of n >= 0
RECURSIVE Digits(_)
Digits(n) == IF n < 10 THEN <<n>> ELSE Append(Digits(n \div 10), n % 10)

\* String(x) of a time value of h hours: the digits of h * 3600000
MillisDigits(h) == Digits(h * 36) \o <<0, 0, 0, 0, 0>>

\* a < b for two strings of digits, compared as Array.prototype.sort
\* compares when given no comparator: by UTF-16 code units
DigitsLess(a, b) ==
    \/ /\ Len(a) < Len(b)
       /\ \A i \in 1..Len(a) : a[i] = b[i]
    \/ \E i \in 1..Len(a) :
          /\ i <= Len(b)
          /\ a[i] < b[i]
          /\ \A j \in 1..(i - 1) : a[j] = b[j]

\* String(x) < String(y) for two getTime() values; "NaN" is after every digit
StringLess(x, y) ==
    IF x.nan THEN FALSE
    ELSE IF y.nan THEN TRUE
    ELSE DigitsLess(MillisDigits(x.t), MillisDigits(y.t))

\* [...allDates].sort()[0] and .at(-1) of a non-empty set
SortedFirst(allDates) ==
    CHOOSE x \in allDates : \A y \in allDates \ {x} : StringLess(x, y)
SortedLast(allDates) ==
    CHOOSE x \in allDates : \A y \in allDates \ {x} : StringLess(y, x)

\* new Date(dates[0]) / new Date(dates.at(-1)); of undefined when the array
\* is empty, which is an Invalid Date
WindowStart(allDates) ==
    IF allDates = {} \/ SortedFirst(allDates).nan THEN InvalidDate
    ELSE DateAt(SortedFirst(allDates).t)
WindowEnd(allDates) ==
    IF allDates = {} \/ SortedLast(allDates).nan THEN InvalidDate
    ELSE DateAt(SortedLast(allDates).t)

\* Math.floor((windowEnd - windowStart) / 86400000) + 1 of two valid dates
WindowDays(windowStart, windowEnd) ==
    ((windowEnd.t - windowStart.t) \div HoursPerDay) + 1

\* (n / d).toFixed(4) for n >= 0, in ten-thousandths
Fixed4(n, d) ==
    IF d = 0 THEN (IF n = 0 THEN NaN ELSE Infinity)
    ELSE IF d > 0 THEN Num((2 * n * 10000 + d) \div (2 * d))
    ELSE Num(0 - ((2 * n * 10000 - d) \div (2 * (0 - d))))

\* iso(d) = d.toISOString().slice(0, 10): the UTC calendar day
iso(date) == date.t \div HoursPerDay

\* record.userId || 'UNKNOWN'
UserKey(record) == IF record.userId = "" THEN "UNKNOWN" ELSE record.userId

\* the order of localeCompare on the user keys
SortedUserKeys == <<"u1", "u2", "UNKNOWN">>

\* lines 31-35 (372): the set allDates
AllDates(rows) ==
    {getTime(parseDate(rows[i].date)) :
        i \in {j \in 1..Len(rows) : parseDate(rows[j].date) # NullDate}}

\* lines 59-64 (395-400): _present and _active of one user
PresentSet(rows, user, tz) ==
    {toDateString(parseDate(rows[i].date), tz) :
        i \in {j \in 1..Len(rows) : /\ UserKey(rows[j]) = user
                                    /\ parseDate(rows[j].date) # NullDate}}
ActiveSet(rows, user, tz) ==
    {toDateString(parseDate(rows[i].date), tz) :
        i \in {j \in 1..Len(rows) : /\ UserKey(rows[j]) = user
                                    /\ parseDate(rows[j].date) # NullDate
                                    /\ rows[j].isActive}}

\* lines 86-105 (421-438): the CSV row of one user
UserRow(rows, user, tz) ==
    LET windowStart == WindowStart(AllDates(rows))
        windowEnd == WindowEnd(AllDates(rows))
        windowDays == WindowDays(windowStart, windowEnd)
        presentDays == Cardinality(PresentSet(rows, user, tz))
        activeDays == Cardinality(ActiveSet(rows, user, tz))
    IN  [userId |-> user,
         windowStart |-> iso(windowStart),
         windowEnd |-> iso(windowEnd),
         windowDays |-> windowDays,
         presentDays |-> presentDays,
         daysActive |-> activeDays,
         presenceRate |-> Fixed4(presentDays, windowDays),
         activeRate |-> Fixed4(activeDays, windowDays)]

\* lines 27-105 (366-438): the loop over the records, the window, and the
\* rows of the sorted users.  toISOString of an Invalid Date throws
\* RangeError, so iso() at line 91/92 (425/426) ends the run as soon as
\* there is one user and the window has an invalid end.
SummariseWindow(rows, tz) ==
    LET users == {UserKey(rows[i]) : i \in 1..Len(rows)}
        sortedUsers == SelectSeq(SortedUserKeys, LAMBDA u : u \in users)
        windowStart == WindowStart(AllDates(rows))
        windowEnd == WindowEnd(AllDates(rows))
    IN  IF users # {} /\ (~windowStart.valid \/ ~windowEnd.valid)
        THEN [threw |-> TRUE, lines |-> <<>>]
        ELSE [threw |-> FALSE,
              lines |-> [i \in 1..Len(sortedUsers) |->
                            UserRow(rows, sortedUsers[i], tz)]]

\* cursor/aggregate.js aggregateWindow
AggregateWindow ==
    /\ windowPc = "start"
    /\ windowPc' = "aggregateWindow"
    /\ IF monthlyActivity.kind # "array"
       THEN \* lines 14-22: no file, or data.data is not an array
            /\ windowOutcome' = "threw"
            /\ windowCsv' = <<>>
       ELSE LET summary == SummariseWindow(monthlyActivity.rows, timeZone)
            IN  /\ windowOutcome' = IF summary.threw THEN "threw" ELSE "written"
                /\ windowCsv' = summary.lines
    /\ UNCHANGED <<monthlyActivity, timeZone, exceptWindow>>

\* CursorReportingService.generateWindowSummary
GenerateWindowSummary ==
    /\ windowPc = "start"
    /\ windowPc' = "generateWindowSummary"
    /\ IF monthlyActivity.kind # "array" \/ monthlyActivity.rows = <<>>
       THEN \* lines 356-364: no file, or no rows
            /\ windowOutcome' = "null"
            /\ windowCsv' = <<>>
       ELSE LET summary == SummariseWindow(monthlyActivity.rows, timeZone)
            IN  /\ windowOutcome' = IF summary.threw THEN "threw" ELSE "written"
                /\ windowCsv' = summary.lines
    /\ UNCHANGED <<monthlyActivity, timeZone, exceptWindow>>

\* the latest monthly activity file: none, one whose data is no array, or
\* one with an array of records
MonthlySnapshots ==
    {[kind |-> "missing", rows |-> <<>>], [kind |-> "malformed", rows |-> <<>>]}
    \cup {[kind |-> "array", rows |-> rows] : rows \in RecordLists}

InitWindow ==
    /\ NAME_GROUPS = <<>>
    /\ NamesIdle
    /\ RosterIdle
    /\ MetricsIdle
    /\ monthlyActivity \in MonthlySnapshots
    /\ timeZone \in TimeZones
    /\ windowPc = "start"
    /\ windowOutcome = "none"
    /\ windowCsv = <<>>
    /\ SeatsIdle
    /\ ReportIdle
    /\ RunIdle
    /\ TraversalIdle
    /\ MonthlyIdle
    /\ OthersIdle

NextWindow ==
    \/ AggregateWindow
    \/ GenerateWindowSummary

SpecWindow == InitWindow /\ [][NextWindow]_vars

-----------------------------------------------------------------------------
(***************************************************************************)
(* ReportingService.analyzeCopilotActivity (the loop over the seats) and   *)
(* GitHubDiagnosticService.getActiveUsersInPastDays                        *)
(*                                                                         *)
(* Both read the wall clock more than once: first for the cutoff, then    *)
(* once for every seat that has a last activity.  A run takes the clock   *)
(* of its first reading (now) and the reading from which on the clock      *)
(* shows the next hour (tickAt, 0 when the hour does not change during    *)
(* the run).  Time is in hours, local time.                                *)
(***************************************************************************)
MaxSeats == 2
MaxRuns == 2
LookbackDays == 7

\* seat.last_activity_at: absent (null), a string that is no date, or a
\* timestamp: day 3 at 00:00, day 3 at 12:00, day 9 at 00:00
LastActivityValues ==
    {[type |-> "absent", t |-> 0], [type |-> "garbage", t |-> 0]}
    \cup {[type |-> "iso", t |-> h] :
             h \in {3 * HoursPerDay, 3 * HoursPerDay + 12, 9 * HoursPerDay}}

\* seat.assigning_team: "" stands for none
TeamSlugs == {"", "platform"}

SeatRecords == [last_activity_at : LastActivityValues, assigning_team : TeamSlugs]

\* seatData.seats; the login of a seat is its position in the list, so
\* logins are distinct as they are in what the API returns
SeatLists == UNION {[1..k -> SeatRecords] : k \in 0..MaxSeats}

\* the clock when a run starts: day 10 at 12:00 or at 23:00
Nows == {10 * HoursPerDay + 12, 10 * HoursPerDay + 23}

\* the readings of a run of n seats at which the hour can change
TickPoints(n) == {0} \cup 2..(2 * n + 2)

\* new Date() at the k-th reading of the clock in a run
ClockRead(now, tickAt, k) == IF tickAt # 0 /\ k >= tickAt THEN now + 1 ELSE now

\* new Date(lastActivity) of a truthy lastActivity; never throws
ActivityDate(lastActivity) ==
    IF lastActivity.type = "iso" THEN DateAt(lastActivity.t) ELSE InvalidDate

NullNumber == [kind |-> "null", v |-> 0]

\* Math.floor((new Date() - activityDate) / (1000 * 60 * 60 * 24))
DaysSince(clock, activityDate) ==
    IF activityDate.valid THEN Num((clock - activityDate.t) \div HoursPerDay) ELSE NaN

\* ReportingService.js line 389: Date.now() - 7 days, not floored to a day
CopilotCutoff(now) == now - LookbackDays * HoursPerDay

\* ReportingService.js lines 396-413: the activityMap entry of seat i
CopilotEntry(seats, now, tickAt, i) ==
    LET lastActivity == seats[i].last_activity_at
        activityDate == ActivityDate(lastActivity)
    IN  IF lastActivity.type = "absent"
        THEN [lastActivity |-> lastActivity, daysSinceActivity |-> NullNumber,
              isActive |-> FALSE]
        ELSE [lastActivity |-> lastActivity,
              daysSinceActivity |-> DaysSince(ClockRead(now, tickAt, i + 1), activityDate),
              isActive |-> activityDate.valid /\ activityDate.t >= CopilotCutoff(now)]

\* ReportingService.js lines 389-422
analyzeCopilotSeats(seats, now, tickAt) ==
    LET activityMap == [i \in 1..Len(seats) |-> CopilotEntry(seats, now, tickAt, i)]
    IN  [activeLogins |-> {i \in 1..Len(seats) : activityMap[i].isActive},
         inactiveLogins |-> {i \in 1..Len(seats) : ~activityMap[i].isActive},
         activityMap |-> activityMap]

\* GitHubDiagnosticService.js lines 656-658: now minus the days, then
\* setHours(0, 0, 0, 0)
PastDaysCutoff(now, days) == ((now \div HoursPerDay) - days) * HoursPerDay

\* Math.round((count / total) * 100)
RoundedShare(count, total) ==
    IF total = 0 THEN (IF count = 0 THEN NaN ELSE Infinity)
    ELSE Num((2 * count * 100 + total) \div (2 * total))

\* lines 668-695 and 746-750: userInfo of seat i at the k-th clock reading
UserInfo(seats, now, tickAt, i, k) ==
    LET lastActivity == seats[i].last_activity_at
    IN  IF lastActivity.type = "absent"
        THEN [login |-> i, hasActivity |-> FALSE, lastActivity |-> 0,
              daysSinceActivity |-> NullNumber]
        ELSE [login |-> i, hasActivity |-> TRUE, lastActivity |-> lastActivity.t,
              daysSinceActivity |->
                  DaysSince(ClockRead(now, tickAt, k), ActivityDate(lastActivity))]

\* the comparators of lines 706-714: most recent first, no activity last
SortsBefore(a, b) ==
    a.hasActivity /\ (~b.hasActivity \/ a.lastActivity > b.lastActivity)

\* Array.prototype.sort with that comparator (a stable sort)
SortByRecent(users) ==
    LET n == Len(users)
        order == CHOOSE f \in [1..n -> 1..n] :
                    /\ \A i, j \in 1..n : i # j => f[i] # f[j]
                    /\ \A i, j \in 1..n :
                          i < j => \/ SortsBefore(users[f[i]], users[f[j]])
                                   \/ /\ ~SortsBefore(users[f[j]], users[f[i]])
                                      /\ f[i] < f[j]
    IN  [i \in 1..n |-> users[order[i]]]

\* whether seat i is active at the cutoff (lines 676, 697 and 726, 752)
ActiveAtCutoff(seats, cutoff, i) ==
    /\ seats[i].last_activity_at.type = "iso"
    /\ seats[i].last_activity_at.t >= cutoff

\* lines 660-714 and 722-766: the active or the inactive users among the
\* seats at the positions idx (ascending), sorted; base is the number of
\* clock readings made before the loop
UsersOf(seats, now, tickAt, cutoff, idx, base, active) ==
    LET chosen == SelectSeq(idx, LAMBDA i : ActiveAtCutoff(seats, cutoff, i) = active)
    IN  SortByRecent([k \in 1..Len(chosen) |->
                         UserInfo(seats, now, tickAt, chosen[k], base + chosen[k])])

\* the positions 1..n in ascending order, and those of the seats of a team
Positions(n) == [i \in 1..n |-> i]
TeamPositions(seats, slug) ==
    SelectSeq(Positions(Len(seats)), LAMBDA i : seats[i].assigning_team = slug)

\* lines 768-783: the analysis of one team
TeamAnalysis(seats, now, tickAt, cutoff, slug) ==
    LET idx == TeamPositions(seats, slug)
        activeUsers == UsersOf(seats, now, tickAt, cutoff, idx, 1 + Len(seats), TRUE)
        inactiveUsers == UsersOf(seats, now, tickAt, cutoff, idx, 1 + Len(seats), FALSE)
    IN  [totalSeats |-> Len(idx),
         activeUsers |-> [count |-> Len(activeUsers),
                          percentage |-> RoundedShare(Len(activeUsers), Len(idx)),
                          users |-> activeUsers],
         inactiveUsers |-> [count |-> Len(inactiveUsers),
                            percentage |-> RoundedShare(Len(inactiveUsers), Len(idx)),
                            users |-> inactiveUsers]]

\* getActiveUsersInPastDays(seats, days).  new Date(lastActivity) never
\* throws, so the catch of lines 687-691 is dead: a last activity that is
\* no date reaches activityDate.toISOString() at line 694, which throws
\* RangeError, and the call ends there.
getActiveUsersInPastDays(seats, days, now, tickAt) ==
    LET cutoff == PastDaysCutoff(now, days)
        all == Positions(Len(seats))
        activeUsers == UsersOf(seats, now, tickAt, cutoff, all, 1, TRUE)
        inactiveUsers == UsersOf(seats, now, tickAt, cutoff, all, 1, FALSE)
        teams == {seats[i].assigning_team : i \in 1..Len(seats)} \ {""}
    IN  IF \E i \in 1..Len(seats) : seats[i].last_activity_at.type = "garbage"
        THEN [outcome |-> "threw", analysis |-> <<>>]
        ELSE [outcome |-> "returned",
              analysis |->
                  <<[totalSeats |-> Len(seats),
                     activeUsers |-> [count |-> Len(activeUsers),
                                      percentage |->
                                          RoundedShare(Len(activeUsers), Len(seats)),
                                      users |-> activeUsers],
                     inactiveUsers |-> [count |-> Len(inactiveUsers),
                                        percentage |->
                                            RoundedShare(Len(inactiveUsers), Len(seats)),
                                        users |-> inactiveUsers],
                     teamAnalysis |->
                         [slug \in teams |->
                             TeamAnalysis(seats, now, tickAt, cutoff, slug)],
                     analysisConfig |->
                         [daysLookback |-> days, cutoffDate |-> cutoff,
                          analyzedAt |->
                              ClockRead(now, tickAt, 2 * Len(seats) + 2)]]>>]

\* one run of analyzeCopilotActivity over the seats of the snapshot
AnalyzeCopilotActivity ==
    /\ Len(copilotRuns) < MaxRuns
    /\ \E tickAt \in TickPoints(Len(seatList)) :
          copilotRuns' =
              Append(copilotRuns, analyzeCopilotSeats(seatList, seatNow, tickAt))
    /\ UNCHANGED <<seatList, seatNow, pastDaysRuns, exceptSeats>>

\* one run of getActiveUsersInPastDays over the seats of the snapshot
GetActiveUsersInPastDays ==
    /\ Len(pastDaysRuns) < MaxRuns
    /\ \E tickAt \in TickPoints(Len(seatList)) :
          pastDaysRuns' =
              Append(pastDaysRuns,
                     getActiveUsersInPastDays(seatList, LookbackDays, seatNow, tickAt))
    /\ UNCHANGED <<seatList, seatNow, copilotRuns, exceptSeats>>

InitSeats ==
    /\ NAME_GROUPS = <<>>
    /\ NamesIdle
    /\ RosterIdle
    /\ MetricsIdle
    /\ WindowIdle
    /\ seatList \in SeatLists
    /\ seatNow \in Nows
    /\ copilotRuns = <<>>
    /\ pastDaysRuns = <<>>
    /\ ReportIdle
    /\ RunIdle
    /\ TraversalIdle
    /\ MonthlyIdle
    /\ OthersIdle

NextSeats ==
    \/ AnalyzeCopilotActivity
    \/ GetActiveUsersInPastDays

SpecSeats == InitSeats /\ [][NextSeats]_vars

-----------------------------------------------------------------------------
(***************************************************************************)
(* ReportingService: generateActiveUsersReport,                            *)
(* generateAIToolingAdoptionReport, generateRecentActivityReport           *)
(*                                                                         *)
(* The steps of the active-users report, lines 42-100: load the roster and *)
(* lookup table and filter, analyse the Copilot seats, analyse the Cursor *)
(* records (one action per record of the loop), compute the statistics,   *)
(* save.  The adoption report loads, analyses the adoption and saves; the *)
(* recent-activity report analyses and saves.  An exception in any step   *)
(* reaches the catch of the entry point, which logs and rethrows.  What a *)
(* file holds is drawn when the file is read.                              *)
(***************************************************************************)

\* the files of a run: the roster (direct-reports.json), the lookup CSV, the
\* latest copilot-seats_*.json and the latest weekly-report_*.json
ReportFileStates ==
    [roster : {"missing", "unparseable", "invalid", "ok"},
     lookup : {"missing", "unparseable", "ok"},
     copilot : {"missing", "unparseable", "ok"},
     cursor : {"missing", "unparseable", "ok"}]

Person(name, directReports) == [name |-> name, directReports |-> directReports]

\* orgData.organization: nobody, one person, a manager with one report
ReportRosters ==
    { <<>>,
      <<Person(<<"a">>, <<>>)>>,
      <<Person(<<"a">>, <<Person(<<"b">>, <<>>)>>)>> }

\* a row of the lookup CSV; githubLogin 0 stands for an empty cell, any
\* other value is the login of the seat at that position
LookupRow(name, email, githubLogin, role, hasCopilot, hasCursor) ==
    [name |-> name, email |-> email, githubLogin |-> githubLogin, role |-> role,
     hasCopilot |-> hasCopilot, hasCursor |-> hasCursor]

\* the lookup CSV: no row, a user of both tools, a manager without tools, a
\* Copilot user followed by a Cursor user
ReportLookupTables ==
    { <<>>,
      <<LookupRow(<<"a">>, <<"A">>, 1, "engineer", TRUE, TRUE)>>,
      <<LookupRow(<<"a", SP>>, <<>>, 0, "engineering manager", FALSE, FALSE)>>,
      <<LookupRow(<<"a">>, <<>>, 1, "engineer", TRUE, FALSE),
        LookupRow(<<"b">>, <<"a">>, 0, "engineer", FALSE, TRUE)>> }

\* lines 385 and 446: a snapshot older than this many days is stale
StaleAfterDays == 7

\* new Date(t).toISOString().split('T')[0]: the UTC day of an instant
IsoDay(t) == t \div HoursPerDay

\* role.toLowerCase() includes 'manager', 'vp' or 'director'
IsManagerRole(role) == role \in {"engineering manager", "vp", "director"}

\* org.js countTotalRDPeople
RECURSIVE countPeople(_)
countPeople(nodes) ==
    IF nodes = <<>> THEN 0
    ELSE 1 + countPeople(Head(nodes).directReports) + countPeople(Tail(nodes))

countTotalRDPeople(org) == countPeople(org)

\* org.js extractEngineeringTeam: everyone in the roster
RECURSIVE collectAll(_)
collectAll(nodes) ==
    IF nodes = <<>> THEN {}
    ELSE (IF Head(nodes).name # <<>> THEN {normalizeText(Head(nodes).name)} ELSE {})
         \cup collectAll(Head(nodes).directReports)
         \cup collectAll(Tail(nodes))

extractEngineeringTeam(org) == collectAll(org)

\* the seat snapshot read by a report: at most one seat
ReportSeatLists ==
    {seats \in SeatLists :
        /\ Len(seats) <= 1
        /\ \A i \in 1..Len(seats) : seats[i].assigning_team = ""}

\* a record of the weekly Cursor snapshot; email <<>> stands for none
CursorRecords ==
    [email : {<<>>, <<"a">>, <<"A">>},
     date : LastActivityValues,
     isActive : BOOLEAN,
     composerRequests : {<<>>, <<1>>},
     chatRequests : {<<>>, <<1>>}]

\* (n / d * 100).toFixed(1), in tenths
PercentFixed1(n, d) ==
    IF d = 0 THEN (IF n = 0 THEN NaN ELSE Infinity)
    ELSE Num((2 * n * 1000 + d) \div (2 * d))

\* lines 371-374: what analyzeCopilotActivity returns when there is no file
NoCopilotData == [activeLogins |-> {}, inactiveLogins |-> {}, activityMap |-> <<>>]

\* lines 450-454 (and 432-435): the sets and the map of analyzeCursorActivity
\* before the first record, with the cutoff and the number of records read
CursorStart(cutoffDate) ==
    [activeUsers |-> {}, inactiveUsers |-> {}, activityMap |-> <<>>,
     cutoffDate |-> cutoffDate, recordsRead |-> 0]

\* lines 456-479: one turn of the loop over cursorData.data
CursorStep(a, record) ==
    LET email == ToLowerCase(record.email)
        date == ActivityDate(record.date)
        isActive == record.isActive /\ date.valid /\ date.t >= a.cutoffDate
        before == IF email \in DOMAIN a.activityMap THEN a.activityMap[email]
                  ELSE [lastActivity |-> [has |-> FALSE, t |-> 0],
                        hasRecentActivity |-> FALSE, totalRequests |-> 0]
        summed == [before EXCEPT !.totalRequests =
                      @ + OrZero(record.composerRequests) + OrZero(record.chatRequests)]
        newer == isActive /\ (~summed.lastActivity.has \/ date.t > summed.lastActivity.t)
        after == IF newer
                 THEN [summed EXCEPT !.lastActivity = [has |-> TRUE, t |-> date.t],
                                     !.hasRecentActivity = TRUE]
                 ELSE summed
    IN  IF email = <<>> THEN [a EXCEPT !.recordsRead = @ + 1]
        ELSE [a EXCEPT !.recordsRead = @ + 1,
                       !.activityMap = [e \in DOMAIN a.activityMap \cup {email} |->
                                           IF e = email THEN after ELSE a.activityMap[e]],
                       !.activeUsers = IF newer THEN @ \cup {email} ELSE @]

\* lines 519-522: a user active in either tool
ActiveInEither(u, copilot, cursor) ==
    \/ u.hasCopilot /\ u.githubLogin \in copilot.activeLogins
    \/ u.hasCursor /\ ToLowerCase(u.email) \in cursor.activeUsers

\* analyzeEngineeringTeam, lines 488-508
analyzeEngineeringTeam(groups, users, org) ==
    LET engineeringUsers == extractEngineeringTeam(org)
        engineeringTeamUsers ==
            SelectSeq(users, LAMBDA u : InOrg(groups, u.name, engineeringUsers))
    IN  [allEngineering |-> engineeringTeamUsers,
         individualContributors |->
             SelectSeq(engineeringTeamUsers, LAMBDA u : ~IsManagerRole(u.role)),
         totalSize |-> Cardinality(engineeringUsers)]

\* calculateComprehensiveStats, lines 514-556
calculateComprehensiveStats(users, org, copilot, cursor, engineering) ==
    LET totalRDPeople == countTotalRDPeople(org)
        weeklyActiveInEither ==
            Len(SelectSeq(users, LAMBDA u : ActiveInEither(u, copilot, cursor)))
    IN  [totalRDPeople |-> totalRDPeople,
         usersInLookup |-> Len(users),
         usersWithTools |-> Len(SelectSeq(users, LAMBDA u : u.hasCopilot \/ u.hasCursor)),
         weeklyActiveInEither |-> weeklyActiveInEither,
         weeklyActivePercentage |-> PercentFixed1(weeklyActiveInEither, totalRDPeople),
         copilotUsers |-> Len(SelectSeq(users, LAMBDA u : u.hasCopilot)),
         cursorUsers |-> Len(SelectSeq(users, LAMBDA u : u.hasCursor)),
         activeCopilotUsers |-> Cardinality(copilot.activeLogins),
         activeCursorUsers |-> Cardinality(cursor.activeUsers),
         engineeringTotal |-> engineering.totalSize,
         engineeringWithTools |->
             Len(SelectSeq(engineering.allEngineering, LAMBDA u : u.hasCopilot \/ u.hasCursor)),
         engineeringActiveWeekly |->
             Len(SelectSeq(engineering.allEngineering,
                     LAMBDA u : ActiveInEither(u, copilot, cursor))),
         engineeringICsTotal |-> Len(engineering.individualContributors),
         engineeringICsActiveWeekly |->
             Len(SelectSeq(engineering.individualContributors,
                     LAMBDA u : ActiveInEither(u, copilot, cursor)))]

\* generateActiveUsersReportMarkdown, lines 562-624: the values of the text
ActiveUsersReportMarkdown(stats, copilot, cursor, now) ==
    [reportDate |-> IsoDay(now),
     cutoffDate |-> IsoDay(now - LookbackDays * HoursPerDay),
     stats |-> stats,
     inactiveCopilotUsers |-> Cardinality(copilot.inactiveLogins),
     inactiveCursorUsers |-> Cardinality(cursor.inactiveUsers),
     engineeringActiveShare |->
         PercentFixed1(stats.engineeringActiveWeekly, stats.engineeringTotal),
     engineeringICsActiveShare |->
         PercentFixed1(stats.engineeringICsActiveWeekly, stats.engineeringICsTotal)]

\* a staleness test that never warns
NeverStale(ageHours) == FALSE

\* lines 384-385 and 445-446: ageDays > 7, on the age in hours
IsStale(ageHours) == ageHours > StaleAfterDays * HoursPerDay

\* statSync(latestFile).mtimeMs against Date.now(): exactly seven days, or
\* thirty days
SnapshotAges == {StaleAfterDays * HoursPerDay, 30 * HoursPerDay}

\* the clock when the report text is generated: the last hour of a day or
\* the midnight that follows
ReportClock == {10 * HoursPerDay + 23, 11 * HoursPerDay}

\* what the user types at the prompt, after promptUser's trim()
PromptResponses == {"y", "YES", "n", ""}

\* response.toLowerCase()
LowerResponse(response) == IF response = "YES" THEN "yes" ELSE response

\* the overwrite policy when every answer is taken for a yes
AlwaysProceed(exists, response) == TRUE

\* common/fs.js checkAndPromptOverwrite, lines 38-54: exists is
\* fs.existsSync(filePath), response is what promptUser resolved to
checkAndPromptOverwrite(exists, response) ==
    \/ ~exists
    \/ LowerResponse(response) = "y"
    \/ LowerResponse(response) = "yes"

\* a second generation pass for the canonical file
WrittenRegenerated(reportContent, regenerated) == regenerated

\* lines 90-91, 146-147, 198-199: the content passed to the second
\* writeFileSync is the reportContent passed to the first
WrittenToCanonical(reportContent, regenerated) == reportContent

\* what loadUserLookupData makes of a file that is no CSV: a single line
\* gives no row, further lines give rows whose name is the text before the
\* first comma
NonCsvLookupTables ==
    { <<>>,
      <<LookupRow(<<"acute">>, <<>>, 0, "", FALSE, FALSE)>> }

\* a < b on JavaScript numbers: false when either side is NaN
NumLess(a, b) ==
    /\ a.kind # "nan"
    /\ b.kind # "nan"
    /\ IF a.kind = "inf" THEN FALSE
       ELSE IF b.kind = "inf" THEN TRUE
       ELSE a.v < b.v

\* x * 2 on a JavaScript number
NumDouble(a) == IF a.kind = "num" THEN Num(2 * a.v) ELSE a

\* analyzeToolingAdoption, lines 757-768
analyzeToolingAdoption(users) ==
    LET copilotAdoption == Len(SelectSeq(users, LAMBDA u : u.hasCopilot))
        cursorAdoption == Len(SelectSeq(users, LAMBDA u : u.hasCursor))
        anyToolAdoption == Len(SelectSeq(users, LAMBDA u : u.hasCopilot \/ u.hasCursor))
    IN  [totalPeople |-> Len(users),
         copilotAdoption |-> copilotAdoption,
         cursorAdoption |-> cursorAdoption,
         anyToolAdoption |-> anyToolAdoption,
         copilotPercentage |-> PercentFixed1(copilotAdoption, Len(users)),
         cursorPercentage |-> PercentFixed1(cursorAdoption, Len(users)),
         anyToolPercentage |-> PercentFixed1(anyToolAdoption, Len(users))]

\* generateAdoptionRecommendations, lines 787-799: which lines are pushed
generateAdoptionRecommendations(stats) ==
    [expandAccess |-> NumLess(stats.anyToolPercentage, Num(500)),
     cursorLagging |-> NumLess(NumDouble(stats.cursorPercentage),
                               stats.copilotPercentage)]

\* generateAIToolingReportMarkdown, lines 630-664: the values of the text
AIToolingReportMarkdown(adoptionStats, now) ==
    [reportDate |-> IsoDay(now),
     stats |-> adoptionStats,
     recommendations |-> generateAdoptionRecommendations(adoptionStats)]

\* analyzeRecentActivity, lines 770-785
RecentActivity ==
    [copilot |-> [activeUsers |-> 0, averageDaily |-> 0, peakDay |-> "N/A"],
     cursor |-> [activeUsers |-> 0, totalRequests |-> 0, totalLinesAdded |-> 0]]

\* generateRecentActivityReportMarkdown, lines 670-698
RecentActivityReportMarkdown(activityAnalysis, days, now) ==
    [reportDate |-> IsoDay(now), days |-> days, analysis |-> activityAnalysis]

\* the report text of an entry point, lines 68-70, 126, 178
ReportContent(kind, stats, copilot, cursor, now) ==
    CASE kind = "activeUsers" -> ActiveUsersReportMarkdown(stats, copilot, cursor, now)
      [] kind = "adoption" -> AIToolingReportMarkdown(stats, now)
      [] OTHER -> RecentActivityReportMarkdown(stats, LookbackDays, now)

\* the canonical file name of an entry point, lines 80, 136, 188
CanonicalName(kind) ==
    CASE kind = "activeUsers" -> "active-users.md"
      [] kind = "adoption" -> "ai-tooling-adoption-report.md"
      [] OTHER -> "recent-activity-analysis.md"

\* the object an entry point returns after writing, lines 94-99, 150-155,
\* 202-207
ReturnedObject(kind, stats, now) ==
    IF kind = "recent"
    THEN [success |-> TRUE, outputPath |-> CanonicalName(kind),
          timestampedPath |-> <<CanonicalName(kind), now>>, analysis |-> stats]
    ELSE [success |-> TRUE, outputPath |-> CanonicalName(kind),
          timestampedPath |-> <<CanonicalName(kind), now>>, stats |-> stats]

\* lines 45-47 and 119-120: loadOrganizationalData (throws when the roster
\* is not found, is no JSON or has no organization), loadUserLookupData
\* (throws when no CSV is found; any text it finds is split into rows), and
\* for the active-users report filterUsersToOrg
LoadReportData ==
    /\ reportPc = "start"
    /\ reportKind \in {"activeUsers", "adoption"}
    /\ IF reportFiles.roster # "ok" \/ reportFiles.lookup = "missing"
       THEN /\ reportPc' = "threw"
            /\ UNCHANGED <<reportOrg, reportUsers>>
       ELSE \E org \in ReportRosters,
               table \in IF reportFiles.lookup = "ok" THEN ReportLookupTables
                         ELSE NonCsvLookupTables :
               LET loadedUsers == [i \in 1..Len(table) |->
                                    [table[i] EXCEPT !.name = Trim(@)]]
               IN  /\ reportOrg' = org
                   /\ reportUsers' =
                          IF reportKind = "adoption" THEN loadedUsers
                          ELSE SelectSeq(loadedUsers,
                                         LAMBDA u : InOrg(NAME_GROUPS, u.name,
                                                          extractOrgUsers(org)))
                   /\ reportPc' = IF reportKind = "adoption" THEN "adoption"
                                  ELSE "copilot"
    /\ UNCHANGED <<reportKind, reportFiles, copilotAnalysis, cursorAnalysis,
                   reportStats, reportResult, snapshotAges, reportWarnings,
                   promptResponse, exceptReport>>

\* line 53, analyzeCopilotActivity: no seat file gives a warning and the
\* empty analysis; JSON.parse at line 381 is outside any try of the
\* function; lines 382-388 warn when the file read is stale
AnalyzeCopilotStep ==
    /\ reportPc = "copilot"
    /\ CASE reportFiles.copilot = "missing" ->
               /\ copilotAnalysis' = NoCopilotData
               /\ reportWarnings' = reportWarnings \cup {"No Copilot seat files found"}
               /\ reportPc' = "cursor"
               /\ UNCHANGED snapshotAges
         [] reportFiles.copilot = "unparseable" ->
               /\ reportPc' = "threw"
               /\ UNCHANGED <<copilotAnalysis, snapshotAges, reportWarnings>>
         [] OTHER ->
               \E seats \in ReportSeatLists, now \in Nows, ageHours \in SnapshotAges :
                  \E tickAt \in TickPoints(Len(seats)) :
                     /\ snapshotAges' = [snapshotAges EXCEPT !.copilot = <<ageHours>>]
                     /\ reportWarnings' =
                            IF IsStale(ageHours)
                            THEN reportWarnings \cup {"GitHub seat data is stale"}
                            ELSE reportWarnings
                     /\ copilotAnalysis' = analyzeCopilotSeats(seats, now, tickAt)
                     /\ reportPc' = "cursor"
    /\ UNCHANGED <<reportKind, reportFiles, reportOrg, reportUsers, cursorAnalysis,
                   reportStats, reportResult, promptResponse, exceptReport>>

\* line 57, analyzeCursorActivity up to its loop: no weekly file gives a
\* warning and the empty analysis; JSON.parse at line 442 is outside any
\* try; lines 443-449 warn when the file read is stale
BeginCursorAnalysis ==
    /\ reportPc = "cursor"
    /\ CASE reportFiles.cursor = "missing" ->
               /\ cursorAnalysis' = CursorStart(0)
               /\ reportWarnings' = reportWarnings \cup {"No Cursor weekly files found"}
               /\ reportPc' = "stats"
               /\ UNCHANGED snapshotAges
         [] reportFiles.cursor = "unparseable" ->
               /\ reportPc' = "threw"
               /\ UNCHANGED <<cursorAnalysis, snapshotAges, reportWarnings>>
         [] OTHER ->
               \E now \in Nows, ageHours \in SnapshotAges :
                  /\ snapshotAges' = [snapshotAges EXCEPT !.cursor = <<ageHours>>]
                  /\ reportWarnings' =
                         IF IsStale(ageHours)
                         THEN reportWarnings \cup {"Cursor weekly data is stale"}
                         ELSE reportWarnings
                  /\ cursorAnalysis' = CursorStart(now - LookbackDays * HoursPerDay)
                  /\ reportPc' = "cursorLoop"
    /\ UNCHANGED <<reportKind, reportFiles, reportOrg, reportUsers, copilotAnalysis,
                   reportStats, reportResult, promptResponse, exceptReport>>

\* lines 456-479: the next record of cursorData.data
NextCursorRecord(record) ==
    /\ reportPc = "cursorLoop"
    /\ cursorAnalysis.recordsRead < MaxRecords
    /\ cursorAnalysis' = CursorStep(cursorAnalysis, record)
    /\ UNCHANGED <<reportKind, reportFiles, reportPc, reportOrg, reportUsers,
                   copilotAnalysis, reportStats, reportResult, snapshotAges,
                   reportWarnings, promptResponse, exceptReport>>

\* line 481: the records are exhausted
EndCursorAnalysis ==
    /\ reportPc = "cursorLoop"
    /\ reportPc' = "stats"
    /\ UNCHANGED <<reportKind, reportFiles, reportOrg, reportUsers, copilotAnalysis,
                   cursorAnalysis, reportStats, reportResult, snapshotAges,
                   reportWarnings, promptResponse, exceptReport>>

\* lines 60-65
ComputeReportStats ==
    /\ reportPc = "stats"
    /\ reportStats' =
           <<calculateComprehensiveStats(
                 reportUsers, reportOrg, copilotAnalysis, cursorAnalysis,
                 analyzeEngineeringTeam(NAME_GROUPS, reportUsers, reportOrg))>>
    /\ reportPc' = "save"
    /\ UNCHANGED <<reportKind, reportFiles, reportOrg, reportUsers, copilotAnalysis,
                   cursorAnalysis, reportResult, snapshotAges, reportWarnings,
                   promptResponse, exceptReport>>

\* line 123 of generateAIToolingAdoptionReport
AnalyzeToolingAdoption ==
    /\ reportPc = "adoption"
    /\ reportStats' = <<analyzeToolingAdoption(reportUsers)>>
    /\ reportPc' = "save"
    /\ UNCHANGED <<reportKind, reportFiles, reportOrg, reportUsers, copilotAnalysis,
                   cursorAnalysis, reportResult, snapshotAges, reportWarnings,
                   promptResponse, exceptReport>>

\* line 175 of generateRecentActivityReport
AnalyzeRecentActivity ==
    /\ reportPc = "start"
    /\ reportKind = "recent"
    /\ reportStats' = <<RecentActivity>>
    /\ reportPc' = "save"
    /\ UNCHANGED <<reportKind, reportFiles, reportOrg, reportUsers, copilotAnalysis,
                   cursorAnalysis, reportResult, snapshotAges, reportWarnings,
                   promptResponse, exceptReport>>

\* lines 68-99, 126-155, 178-207: the text at the clock reading now, the
\* prompt (skipped with skipPrompt; checkAndPromptOverwrite asks only when
\* the canonical file exists), the two files, the returned object.  later
\* is a clock reading after now.
SaveReport(skipPrompt, exists, response, now, later) ==
    /\ reportPc = "save"
    /\ reportPc' = "done"
    /\ later >= now
    /\ LET reportContent ==
               ReportContent(reportKind, reportStats[1], copilotAnalysis,
                             cursorAnalysis, now)
           regenerated ==
               ReportContent(reportKind, reportStats[1], copilotAnalysis,
                             cursorAnalysis, later)
           asked == ~skipPrompt /\ exists
           shouldProceed == checkAndPromptOverwrite(exists, response)
       IN  /\ promptResponse' = IF asked THEN <<response>> ELSE <<>>
           /\ IF ~skipPrompt /\ ~shouldProceed
              THEN reportResult' = [returned |-> [cancelled |-> TRUE],
                                    timestamped |-> <<>>,
                                    canonical |-> <<>>]
              ELSE reportResult' =
                       [returned |-> ReturnedObject(reportKind, reportStats[1], now),
                        timestamped |-> <<reportContent>>,
                        canonical |-> <<WrittenToCanonical(reportContent,
                                                           regenerated)>>]
    /\ UNCHANGED <<reportKind, reportFiles, reportOrg, reportUsers, copilotAnalysis,
                   cursorAnalysis, reportStats, snapshotAges, reportWarnings,
                   exceptReport>>

ReportKinds == {"activeUsers", "adoption", "recent"}

InitReport ==
    /\ NAME_GROUPS = <<>>
    /\ NamesIdle
    /\ RosterIdle
    /\ MetricsIdle
    /\ WindowIdle
    /\ SeatsIdle
    /\ reportKind \in ReportKinds
    /\ reportFiles \in ReportFileStates
    /\ reportPc = "start"
    /\ reportOrg = <<>>
    /\ reportUsers = <<>>
    /\ copilotAnalysis = <<>>
    /\ cursorAnalysis = <<>>
    /\ reportStats = <<>>
    /\ reportResult = <<>>
    /\ snapshotAges = [copilot |-> <<>>, cursor |-> <<>>]
    /\ reportWarnings = {}
    /\ promptResponse = <<>>
    /\ RunIdle
    /\ TraversalIdle
    /\ MonthlyIdle
    /\ OthersIdle

NextReport ==
    \/ LoadReportData
    \/ AnalyzeCopilotStep
    \/ BeginCursorAnalysis
    \/ \E record \in CursorRecords : NextCursorRecord(record)
    \/ EndCursorAnalysis
    \/ ComputeReportStats
    \/ AnalyzeToolingAdoption
    \/ AnalyzeRecentActivity
    \/ \E skipPrompt, exists \in BOOLEAN, now, later \in ReportClock :
          \E response \in IF ~skipPrompt /\ exists THEN PromptResponses ELSE {""} :
             SaveReport(skipPrompt, exists, response, now, later)

SpecReport == InitReport /\ [][NextReport]_vars

-----------------------------------------------------------------------------
(***************************************************************************)
(* bin/ai-metrics-report.js: executeStep and runOneShotReport              *)
(*                                                                         *)
(* A step is called (its stepFunction starts, line 381) and later settles *)
(* (its promise resolves or rejects).  What a fetch or a report returns   *)
(* comes from the network and the disk: whether it succeeds is drawn when *)
(* it settles.  process.exit(1) of line 559 is the position "exit1".      *)
(***************************************************************************)
FetchStepNames == <<"metrics", "seats", "cursor">>
ReportStepNames == <<"activeUsers", "adoption", "recent">>
RunSteps == FetchStepNames \o ReportStepNames

FetchSteps == {FetchStepNames[i] : i \in 1..Len(FetchStepNames)}
ReportSteps == {ReportStepNames[i] : i \in 1..Len(ReportStepNames)}

\* the third argument of executeStep treated as always true
AlwaysRequired(step) == TRUE

\* the third argument of executeStep: false at lines 423, 435, 445 and 503,
\* defaulted to true at lines 482-495
Required(step) == step \in {"activeUsers", "adoption"}

At(pc, step) == [pc |-> pc, step |-> step]

\* the statement that follows step i once it is done: the next step, the
\* prerequisites after the last fetch, the summary after the last report
StatementAfter(i) ==
    IF i = Len(FetchStepNames) THEN At("prereq", 0)
    ELSE IF i = Len(RunSteps) THEN At("summary", 0)
    ELSE At("call", i + 1)

\* a step function that is started and not awaited
AfterCallDetached(i) == StatementAfter(i)

\* line 381, await stepFunction(): the run waits for step i to settle
AfterCall(i) == At("await", i)

\* lines 405-410: the services are constructed inside the try; without a
\* CURSOR_API_KEY the constructor of CursorActivityService throws
\* (CursorBaseService.createClient) and the catch of line 527 exits
InitializeServices ==
    /\ runPc = "init"
    /\ runPc' = IF runEnv.cursorApiKey THEN "call" ELSE "exit1"
    /\ runStep' = IF runEnv.cursorApiKey THEN 1 ELSE 0
    /\ UNCHANGED <<runEnv, stepStatus, rosterStub, exceptRun>>

\* executeStep lines 379-381: the step function is called
CallStep ==
    /\ runPc = "call"
    /\ stepStatus' = [stepStatus EXCEPT ![RunSteps[runStep]] = "running"]
    /\ runPc' = AfterCall(runStep).pc
    /\ runStep' = AfterCall(runStep).step
    /\ UNCHANGED <<runEnv, rosterStub, exceptRun>>

\* executeStep lines 381-391: the step settles; where the run awaits it, a
\* success or a failure of a step that is not required goes on with the
\* next statement, a failure of a required step is rethrown to line 527
SettleStep(step, succeeded) ==
    /\ stepStatus[step] = "running"
    /\ stepStatus' = [stepStatus EXCEPT ![step] = IF succeeded THEN "ok" ELSE "failed"]
    /\ IF runPc = "await" /\ RunSteps[runStep] = step
       THEN IF ~succeeded /\ Required(step)
            THEN /\ runPc' = "exit1"
                 /\ runStep' = 0
            ELSE /\ runPc' = StatementAfter(runStep).pc
                 /\ runStep' = StatementAfter(runStep).step
       ELSE UNCHANGED <<runPc, runStep>>
    /\ UNCHANGED <<runEnv, rosterStub, exceptRun>>

\* line 451, ensureReportingPrerequisites: a stub roster is written when no
\* direct-reports.json exists anywhere under data/
EnsureReportingPrerequisites ==
    /\ runPc = "prereq"
    /\ rosterStub' = ~runEnv.rosterExists
    /\ runPc' = "prompt"
    /\ UNCHANGED <<runEnv, runStep, stepStatus, exceptRun>>

\* lines 454-479: the overwrite prompt, unless skipPrompt
PromptForOverwrite(confirmed) ==
    /\ runPc = "prompt"
    /\ IF runEnv.skipPrompt \/ ~runEnv.reportsExist \/ confirmed
       THEN /\ runPc' = "call"
            /\ runStep' = Len(FetchStepNames) + 1
       ELSE /\ runPc' = "cancelled"
            /\ runStep' = 0
    /\ UNCHANGED <<runEnv, stepStatus, rosterStub, exceptRun>>

\* lines 506-525
PrintSummary ==
    /\ runPc = "summary"
    /\ runPc' = "returned"
    /\ UNCHANGED <<runEnv, runStep, stepStatus, rosterStub, exceptRun>>

InitRun ==
    /\ NAME_GROUPS = <<>>
    /\ NamesIdle
    /\ RosterIdle
    /\ MetricsIdle
    /\ WindowIdle
    /\ SeatsIdle
    /\ ReportIdle
    /\ TraversalIdle
    /\ MonthlyIdle
    /\ OthersIdle
    /\ runEnv \in [cursorApiKey : BOOLEAN, skipPrompt : BOOLEAN,
                   reportsExist : BOOLEAN, rosterExists : BOOLEAN]
    /\ runPc = "init"
    /\ runStep = 0
    /\ stepStatus = [step \in FetchSteps \cup ReportSteps |-> "notStarted"]
    /\ rosterStub = FALSE

NextRun ==
    \/ InitializeServices
    \/ CallStep
    \/ \E step \in FetchSteps \cup ReportSteps, succeeded \in BOOLEAN :
          SettleStep(step, succeeded)
    \/ EnsureReportingPrerequisites
    \/ \E confirmed \in BOOLEAN : PromptForOverwrite(confirmed)
    \/ PrintSummary

SpecRun == InitRun /\ [][NextRun]_vars

-----------------------------------------------------------------------------
(***************************************************************************)
(* org.js: extractOrgUsers, countTotalRDPeople, extractEngineeringTeam,    *)
(* one nested call at a time.  The roster is a graph of nodes 1..N; the    *)
(* organization array holds node 1.  A roster read from a file is a tree;  *)
(* the functions are exported and take whatever object they are given, so  *)
(* directReports may also lead back to an ancestor.  No function keeps a   *)
(* record of the nodes it has entered.                                     *)
(***************************************************************************)
MaxNodes == 3

\* the engine's limit on nested calls: one more call throws RangeError
\* (Maximum call stack size exceeded)
MaxCallDepth == 4

\* the name of a node: none, or the node's own name; the last one carries
\* an accent
NodeName(n) == IF n = 1 THEN <<"a">> ELSE IF n = 2 THEN <<"b">> ELSE <<"a_acute", "b">>

\* directReports of a node: none, one node, or two
ReportLists ==
    {<<>>} \cup {<<n>> : n \in 1..MaxNodes}
           \cup {<<m, n>> : m \in 1..MaxNodes, n \in 2..MaxNodes}

RosterGraphs ==
    [names : [1..MaxNodes -> BOOLEAN], reports : [1..MaxNodes -> ReportLists]]

\* node.name of a node of the graph, <<>> when it has none
NameIn(graph, n) == IF graph.names[n] THEN NodeName(n) ELSE <<>>

\* the array a nested call iterates: the organization array for 0, else
\* the node's directReports
IteratedList(graph, n) == IF n = 0 THEN <<1>> ELSE graph.reports[n]

\* whether the function recurses into the directReports of a node it was
\* called on: extractOrgUsers returns at line 10 for a node without a name;
\* countPeople (line 32) and collectAll (line 50) recurse whatever the name
Recurses(function, name) == function # "extractOrgUsers" \/ name # <<>>

\* the next element of the innermost iteration: the function's effect on
\* the node (lines 10-12, 31, 49), then the nested call over its
\* directReports, which overflows the stack at MaxCallDepth
EnterNode ==
    /\ traversalPc = "running"
    /\ callStack # <<>>
    /\ LET frame == callStack[Len(callStack)]
           list == IteratedList(rosterGraph, frame.node)
       IN  /\ frame.next <= Len(list)
           /\ LET node == list[frame.next]
                  name == NameIn(rosterGraph, node)
                  advanced == [callStack EXCEPT ![Len(callStack)].next = @ + 1]
              IN  /\ collected' = IF traversal # "countTotalRDPeople" /\ name # <<>>
                                  THEN collected \cup {normalizeText(name)}
                                  ELSE collected
                  /\ peopleCount' = IF traversal = "countTotalRDPeople"
                                    THEN peopleCount + 1 ELSE peopleCount
                  /\ IF ~Recurses(traversal, name) \/ rosterGraph.reports[node] = <<>>
                     THEN /\ callStack' = advanced
                          /\ UNCHANGED traversalPc
                     ELSE IF Len(callStack) >= MaxCallDepth
                     THEN /\ traversalPc' = "stackOverflow"
                          /\ UNCHANGED callStack
                     ELSE /\ callStack' = Append(advanced, [node |-> node, next |-> 1])
                          /\ UNCHANGED traversalPc
    /\ UNCHANGED <<rosterGraph, traversal, exceptTraversal>>

\* the innermost iteration is exhausted: the nested call returns, the
\* outermost one ends the function
LeaveNode ==
    /\ traversalPc = "running"
    /\ callStack # <<>>
    /\ LET frame == callStack[Len(callStack)]
       IN  frame.next > Len(IteratedList(rosterGraph, frame.node))
    /\ callStack' = SubSeq(callStack, 1, Len(callStack) - 1)
    /\ traversalPc' = IF Len(callStack) = 1 THEN "returned" ELSE "running"
    /\ UNCHANGED <<rosterGraph, traversal, collected, peopleCount, exceptTraversal>>

InitTraversal ==
    /\ NAME_GROUPS = <<>>
    /\ NamesIdle
    /\ RosterIdle
    /\ MetricsIdle
    /\ WindowIdle
    /\ SeatsIdle
    /\ ReportIdle
    /\ RunIdle
    /\ MonthlyIdle
    /\ OthersIdle
    /\ rosterGraph \in RosterGraphs
    /\ traversal \in {"extractOrgUsers", "countTotalRDPeople", "extractEngineeringTeam"}
    /\ callStack = <<[node |-> 0, next |-> 1]>>
    /\ collected = {}
    /\ peopleCount = 0
    /\ traversalPc = "running"

NextTraversal == EnterNode \/ LeaveNode

SpecTraversal == InitTraversal /\ [][NextTraversal]_vars

-----------------------------------------------------------------------------
(***************************************************************************)
(* aggregate.js aggregateMonthly (lines 119-236) and                       *)
(* CursorReportingService.generateMonthlySummary (lines 450-530): the same *)
(* loops over every monthly activity file found and over its records, one *)
(* record per step.  A file holds at most one record per user and UTC day; *)
(* the files of overlapping fetches hold records of the same user and day. *)
(***************************************************************************)
MaxFiles == 2

\* 2001-09-01, 2001-09-30 and 2001-10-01 as days since the epoch
Sep01 == Sep08 - 7
Sep30 == Sep08 + 22
Oct01 == Sep08 + 23

\* record.date in a monthly file: absent, no date, the last day of a month,
\* the first day of the next as a string and as a number of milliseconds
MonthlyDateValues ==
    {[type |-> "absent", t |-> 0], [type |-> "garbage", t |-> 0],
     [type |-> "ymd", t |-> Sep30 * HoursPerDay],
     [type |-> "ymd", t |-> Oct01 * HoursPerDay],
     [type |-> "number", t |-> Oct01 * HoursPerDay + 1]}

MonthlyRows ==
    [userId : {"", "u1"}, date : MonthlyDateValues, isActive : BOOLEAN,
     totalLinesAdded : LineCounters]

\* "YYYY-MM" of a UTC day between August and October 2001
MonthLabel(day) ==
    IF day >= Oct01 THEN "2001-10" ELSE IF day >= Sep01 THEN "2001-09" ELSE "2001-08"

\* line 170 (469): iso(new Date(date.getFullYear(), date.getMonth(), 1))
\* .slice(0, 7): the first day of the local month at local midnight, then
\* the month of its UTC day
MonthOf(date, tz) ==
    LET localDay == (date.t + tz) \div HoursPerDay
        firstDay == IF localDay >= Oct01 THEN Oct01 ELSE Sep01
    IN  MonthLabel((firstDay * HoursPerDay - tz) \div HoursPerDay)

\* (n / d).toFixed(2), in hundredths, for d > 0
Fixed2(n, d) == Num((2 * n * 100 + d) \div (2 * d))

\* lines 171-201 (470-498): the record's key, its entry created on first
\* sight, the counts and the numeric field added
MonthlyStep(records, record, tz) ==
    LET key == <<UserKey(record), MonthOf(parseDate(record.date), tz)>>
        before == IF key \in DOMAIN records THEN records[key]
                  ELSE [daysActive |-> 0, totalDays |-> 0, totalLinesAdded |-> 0]
        after == [daysActive |-> before.daysActive + (IF record.isActive THEN 1 ELSE 0),
                  totalDays |-> before.totalDays + 1,
                  totalLinesAdded |-> before.totalLinesAdded
                                          + OrZero(record.totalLinesAdded)]
    IN  [k \in DOMAIN records \cup {key} |-> IF k = key THEN after ELSE records[k]]

\* the keys in the order of the sort of lines 215-217 (514-516)
SortedMonthlyKeys ==
    << <<"u1", "2001-08">>, <<"u1", "2001-09">>, <<"u1", "2001-10">>,
       <<"UNKNOWN", "2001-08">>, <<"UNKNOWN", "2001-09">>, <<"UNKNOWN", "2001-10">> >>

\* lines 220-232 (518-528): the CSV row of one entry
MonthlyRow(key, entry) ==
    [userId |-> key[1], month |-> key[2],
     daysActive |-> entry.daysActive, totalDays |-> entry.totalDays,
     activeRate |-> IF entry.totalDays # 0
                    THEN <<Fixed4(entry.daysActive, entry.totalDays)>> ELSE <<>>,
     avgLinesAddedPerActiveDay |->
         IF entry.daysActive # 0 THEN Fixed2(entry.totalLinesAdded, entry.daysActive)
         ELSE Num(0),
     totalLinesAdded |-> entry.totalLinesAdded]

\* line 159 (461): the next file of the list
OpenMonthlyFile ==
    /\ monthlyPc = "files"
    /\ Len(snapshotDays) < MaxFiles
    /\ snapshotDays' = Append(snapshotDays, {})
    /\ rowsRead' = 0
    /\ monthlyPc' = "records"
    /\ UNCHANGED <<monthlyFunction, monthlyZone, monthlyRecords, monthlyCsv,
                   exceptMonthly>>

\* lines 163-201 (465-498): the next record of the open file.  A date that
\* is absent skips the record; one that is no date makes toISOString throw
\* RangeError inside iso().
NextMonthlyRecord(record) ==
    /\ monthlyPc = "records"
    /\ rowsRead < MaxRecords
    /\ rowsRead' = rowsRead + 1
    /\ LET date == parseDate(record.date)
           file == Len(snapshotDays)
       IN  CASE date = NullDate ->
                   UNCHANGED <<snapshotDays, monthlyRecords, monthlyPc>>
             [] date = InvalidDate ->
                   /\ monthlyPc' = "threw"
                   /\ UNCHANGED <<snapshotDays, monthlyRecords>>
             [] OTHER ->
                   /\ \A seen \in snapshotDays[file] :
                         ~(seen.user = UserKey(record) /\ seen.day = iso(date))
                   /\ snapshotDays' =
                          [snapshotDays EXCEPT ![file] =
                              @ \cup {[user |-> UserKey(record),
                                       month |-> MonthOf(date, monthlyZone),
                                       day |-> iso(date)]}]
                   /\ monthlyRecords' = MonthlyStep(monthlyRecords, record, monthlyZone)
                   /\ UNCHANGED monthlyPc
    /\ UNCHANGED <<monthlyFunction, monthlyZone, monthlyCsv, exceptMonthly>>

\* the records of the open file are exhausted
CloseMonthlyFile ==
    /\ monthlyPc = "records"
    /\ monthlyPc' = "files"
    /\ UNCHANGED <<monthlyFunction, monthlyZone, snapshotDays, rowsRead,
                   monthlyRecords, monthlyCsv, exceptMonthly>>

\* the files are exhausted: lines 153-155 throw (453-456 return null) when
\* there was none, else lines 205-233 (503-530) write the sorted rows
WriteMonthlySummary ==
    /\ monthlyPc = "files"
    /\ IF snapshotDays = <<>>
       THEN /\ monthlyPc' = IF monthlyFunction = "aggregateMonthly" THEN "threw"
                            ELSE "null"
            /\ UNCHANGED monthlyCsv
       ELSE /\ monthlyPc' = "written"
            /\ monthlyCsv' =
                   LET keys == SelectSeq(SortedMonthlyKeys,
                                         LAMBDA k : k \in DOMAIN monthlyRecords)
                   IN  [i \in 1..Len(keys) |-> MonthlyRow(keys[i], monthlyRecords[keys[i]])]
    /\ UNCHANGED <<monthlyFunction, monthlyZone, snapshotDays, rowsRead,
                   monthlyRecords, exceptMonthly>>

InitMonthly ==
    /\ NAME_GROUPS = <<>>
    /\ NamesIdle
    /\ RosterIdle
    /\ MetricsIdle
    /\ WindowIdle
    /\ SeatsIdle
    /\ ReportIdle
    /\ RunIdle
    /\ TraversalIdle
    /\ OthersIdle
    /\ monthlyFunction \in {"aggregateMonthly", "generateMonthlySummary"}
    /\ monthlyZone \in TimeZones
    /\ snapshotDays = <<>>
    /\ rowsRead = 0
    /\ monthlyRecords = <<>>
    /\ monthlyPc = "files"
    /\ monthlyCsv = <<>>

NextMonthly ==
    \/ OpenMonthlyFile
    \/ \E record \in MonthlyRows : NextMonthlyRecord(record)
    \/ CloseMonthlyFile
    \/ WriteMonthlySummary

SpecMonthly == InitMonthly /\ [][NextMonthly]_vars

-----------------------------------------------------------------------------
(***************************************************************************)
(* GitHubUserService.js: generateUserLookupCSV (lines 267-307) and         *)
(* buildLoginEmailMap (lines 136-140) with mergeWithExistingEmailMap       *)
(* (lines 362-410).  A CSV file is the sequence of its lines, each a       *)
(* string; the byte order mark the save adds is the one the load strips.   *)
(***************************************************************************)
CM == ","
QT == "\""

\* String.prototype.split(','): the pieces between commas
RECURSIVE SplitComma(_)
SplitComma(s) ==
    IF \A i \in 1..Len(s) : s[i] # CM THEN <<s>>
    ELSE LET i == CHOOSE k \in 1..Len(s) :
                      s[k] = CM /\ \A j \in 1..(k - 1) : s[j] # CM
         IN  <<SubSeq(s, 1, i - 1)>> \o SplitComma(SubSeq(s, i + 1, Len(s)))

\* replace(/,/g, ' ')
ReplaceCommas(s) == [i \in 1..Len(s) |-> IF s[i] = CM THEN SP ELSE s[i]]

\* [login, cell].join(',')
JoinComma(login, cell) == login \o <<CM>> \o cell

\* the header cells the two saves write (lines 342 and 419)
LoginHeader == <<"L", "o", "g", "i", "n">>
NameHeader == <<"N", "a", "m", "e">>
EmailHeader == <<"E", "m", "a", "i", "l">>

\* the i flag of /^login$/i and /^name$/i, one character
LowerHeaderChar(c) ==
    CASE c = "L" -> "l" [] c = "N" -> "n" [] c = "E" -> "e" [] OTHER -> c

\* header.findIndex(h => /^word$/i.test(h)); 0 stands for -1
FindHeader(header, word) ==
    LET lower(h) == [i \in 1..Len(h) |-> LowerHeaderChar(h[i])]
        hits == {i \in 1..Len(header) : lower(header[i]) = lower(word)}
    IN  IF hits = {} THEN 0 ELSE CHOOSE i \in hits : \A j \in hits : i <= j

\* header.indexOf(word); 0 stands for -1
IndexOfHeader(header, word) ==
    LET hits == {i \in 1..Len(header) : header[i] = word}
    IN  IF hits = {} THEN 0 ELSE CHOOSE i \in hits : \A j \in hits : i <= j

\* parts[idx] || '': undefined where idx is -1 or past the end
PartAt(parts, idx) == IF idx \in 1..Len(parts) THEN parts[idx] ELSE <<>>

\* filter(line => line.trim().length): the lines that are not blank
NonBlankLines(lines) == SelectSeq(lines, LAMBDA line : Trim(line) # <<>>)

\* the Map or object after set(key, value)
MapSet(map, key, value) ==
    [k \in DOMAIN map \cup {key} |-> IF k = key THEN value ELSE map[k]]

\* loadExistingUserLookup, lines 313-335: login -> name, both trimmed; a row
\* without a login is skipped and a later row of a login replaces an earlier
RECURSIVE LoadUserRows(_, _, _, _)
LoadUserRows(lines, loginIdx, nameIdx, map) ==
    IF lines = <<>> THEN map
    ELSE LET parts == SplitComma(Head(lines))
             login == Trim(PartAt(parts, loginIdx))
             name == Trim(PartAt(parts, nameIdx))
         IN  LoadUserRows(Tail(lines), loginIdx, nameIdx,
                          IF login = <<>> THEN map ELSE MapSet(map, login, name))

loadExistingUserLookup(fileLines) ==
    LET lines == NonBlankLines(fileLines)
    IN  IF lines = <<>> THEN <<>>
        ELSE LET split == SplitComma(lines[1])
                 header == [i \in 1..Len(split) |-> Trim(split[i])]
             IN  LoadUserRows(Tail(lines), FindHeader(header, LoginHeader),
                              FindHeader(header, NameHeader), <<>>)

\* mergeWithExistingEmailMap, lines 365-388: login -> email, neither trimmed
RECURSIVE LoadEmailRows(_, _, _, _)
LoadEmailRows(lines, loginIdx, emailIdx, map) ==
    IF lines = <<>> THEN map
    ELSE LET parts == SplitComma(Head(lines))
             login == PartAt(parts, loginIdx)
             email == IF emailIdx >= 1 THEN PartAt(parts, emailIdx) ELSE <<>>
         IN  LoadEmailRows(Tail(lines), loginIdx, emailIdx,
                           IF login = <<>> THEN map ELSE MapSet(map, login, email))

LoadExistingEmailMap(fileLines) ==
    LET lines == NonBlankLines(fileLines)
    IN  IF lines = <<>> THEN <<>>
        ELSE LET header == SplitComma(lines[1])
             IN  LoadEmailRows(Tail(lines), IndexOfHeader(header, LoginHeader),
                               IndexOfHeader(header, EmailHeader), <<>>)

\* a[0].localeCompare(b[0], 'en') < 0 for logins of lower-case letters
RECURSIVE LoginBefore(_, _)
LoginBefore(x, y) ==
    LET rank(c) == IF c = "a" THEN 1 ELSE IF c = "b" THEN 2 ELSE 0
    IN  IF y = <<>> THEN FALSE
        ELSE IF x = <<>> THEN TRUE
        ELSE IF rank(Head(x)) # rank(Head(y)) THEN rank(Head(x)) < rank(Head(y))
        ELSE LoginBefore(Tail(x), Tail(y))

\* lines 345-346: the keys of the Map, sorted
RECURSIVE SortedLogins(_)
SortedLogins(keys) ==
    IF keys = {} THEN <<>>
    ELSE LET first == CHOOSE k \in keys : \A o \in keys \ {k} : LoginBefore(k, o)
         IN  <<first>> \o SortedLogins(keys \ {first})

\* saveUserLookupCSV, lines 341-356
saveUserLookupCSV(dataMap) ==
    LET logins == SortedLogins(DOMAIN dataMap)
    IN  <<JoinComma(LoginHeader, NameHeader)>>
        \o [i \in 1..Len(logins) |->
               JoinComma(ReplaceCommas(logins[i]), ReplaceCommas(dataMap[logins[i]]))]

\* saveEmailMapCSV, lines 416-431
saveEmailMapCSV(rows) ==
    <<JoinComma(LoginHeader, EmailHeader)>>
    \o [i \in 1..Len(rows) |->
           JoinComma(ReplaceCommas(rows[i].login), ReplaceCommas(rows[i].email))]

\* line 284: (cachedData && cachedData.name || '').trim()
NewName(cache, username) ==
    IF username \in DOMAIN cache /\ cache[username] # <<>>
    THEN Trim(cache[username][1]) ELSE <<>>

\* the logins of the seat files and the cells of a file edited by hand: a
\* blank cell, a space, a name, and a quoted name with a comma in it
Logins == {<<"a">>, <<"b">>}
LoginLists == {<<>>, << <<"a">> >>, << <<"b">> >>, << <<"a">>, <<"b">> >>}
NameCells == {<<>>, <<SP>>, <<"x">>, <<QT, "x", CM, "y", QT>>}
EmailCells == {<<>>, <<"e">>}
CachedNames == {<<>>, << <<>> >>, << <<"n">> >>}

\* the files on disk: none, or the header and at most one row per login,
\* in the order the save writes them
FilesOf(header, cells) ==
    {<<>>}
    \cup { << <<header>>
               \o (IF rowA = <<>> THEN <<>> ELSE <<JoinComma(<<"a">>, rowA[1])>>)
               \o (IF rowB = <<>> THEN <<>> ELSE <<JoinComma(<<"b">>, rowB[1])>>) >> :
             rowA \in {<<>>} \cup {<<c>> : c \in cells},
             rowB \in {<<>>} \cup {<<c>> : c \in cells} }

UserLookupFiles == FilesOf(JoinComma(LoginHeader, NameHeader), NameCells)
EmailMapFiles == FilesOf(JoinComma(LoginHeader, EmailHeader), EmailCells)

\* lines 272-277 and 363-388: the existing file, when there is one, is loaded
LoadExisting ==
    /\ mergePc = "start"
    /\ existingMap' =
           IF existingFile = <<>> THEN <<>>
           ELSE IF mergeFunction = "generateUserLookupCSV"
                THEN loadExistingUserLookup(existingFile[1])
                ELSE LoadExistingEmailMap(existingFile[1])
    /\ mergePc' = "merge"
    /\ UNCHANGED <<mergeFunction, existingFile, mergeLogins, nameCache, mergeRows,
                   mergePos, mergeStats, savedFile, exceptMerge>>

\* lines 282-298: one username of the merge loop
MergeUsername ==
    /\ mergePc = "merge"
    /\ mergeFunction = "generateUserLookupCSV"
    /\ mergePos < Len(mergeLogins)
    /\ mergePos' = mergePos + 1
    /\ LET username == mergeLogins[mergePos + 1]
           newName == NewName(nameCache, username)
       IN  IF username \notin DOMAIN existingMap
           THEN /\ existingMap' = MapSet(existingMap, username, newName)
                /\ mergeStats' = [mergeStats EXCEPT !.added = @ + 1]
           ELSE IF Trim(existingMap[username]) = <<>> /\ newName # <<>>
                THEN /\ existingMap' = MapSet(existingMap, username, newName)
                     /\ mergeStats' = [mergeStats EXCEPT !.updated = @ + 1]
                ELSE /\ mergeStats' = [mergeStats EXCEPT !.unchanged = @ + 1]
                     /\ UNCHANGED existingMap
    /\ UNCHANGED <<mergeFunction, existingFile, mergeLogins, nameCache, mergeRows,
                   mergePc, savedFile, exceptMerge>>

\* lines 395-404: one login of the loop that builds the rows
MergeLogin ==
    /\ mergePc = "merge"
    /\ mergeFunction = "buildLoginEmailMap"
    /\ mergePos < Len(mergeLogins)
    /\ mergePos' = mergePos + 1
    /\ LET login == mergeLogins[mergePos + 1]
           known == login \in DOMAIN existingMap
       IN  /\ mergeRows' = Append(mergeRows,
                                  [login |-> login,
                                   email |-> IF known THEN existingMap[login]
                                             ELSE <<>>])
           /\ mergeStats' = IF known
                            THEN [mergeStats EXCEPT !.existingCount = @ + 1]
                            ELSE [mergeStats EXCEPT !.newCount = @ + 1]
    /\ UNCHANGED <<mergeFunction, existingFile, mergeLogins, nameCache, existingMap,
                   mergePc, savedFile, exceptMerge>>

\* line 301 and line 140: the file is written
SaveMerged ==
    /\ mergePc = "merge"
    /\ mergePos = Len(mergeLogins)
    /\ savedFile' = IF mergeFunction = "generateUserLookupCSV"
                    THEN saveUserLookupCSV(existingMap)
                    ELSE saveEmailMapCSV(mergeRows)
    /\ mergePc' = "done"
    /\ UNCHANGED <<mergeFunction, existingFile, mergeLogins, nameCache, existingMap,
                   mergeRows, mergePos, mergeStats, exceptMerge>>

StartStats(function) ==
    IF function = "generateUserLookupCSV"
    THEN [added |-> 0, updated |-> 0, unchanged |-> 0]
    ELSE [newCount |-> 0, existingCount |-> 0]

\* the command is run again on the file it wrote
RunMergeAgain ==
    /\ mergePc = "done"
    /\ existingFile' = <<savedFile>>
    /\ existingMap' = <<>>
    /\ mergeRows' = <<>>
    /\ mergePos' = 0
    /\ mergeStats' = StartStats(mergeFunction)
    /\ mergePc' = "start"
    /\ savedFile' = <<>>
    /\ UNCHANGED <<mergeFunction, mergeLogins, nameCache, exceptMerge>>

InitMerge ==
    /\ NAME_GROUPS = <<>>
    /\ NamesIdle
    /\ RosterIdle
    /\ MetricsIdle
    /\ WindowIdle
    /\ SeatsIdle
    /\ ReportIdle
    /\ RunIdle
    /\ TraversalIdle
    /\ MonthlyIdle
    /\ RequestIdle
    /\ JobsIdle
    /\ ServeIdle
    /\ mergeFunction \in {"generateUserLookupCSV", "buildLoginEmailMap"}
    /\ existingFile \in IF mergeFunction = "generateUserLookupCSV"
                        THEN UserLookupFiles ELSE EmailMapFiles
    /\ mergeLogins \in LoginLists
    /\ nameCache \in IF mergeFunction = "generateUserLookupCSV"
                     THEN [Logins -> CachedNames] ELSE {<<>>}
    /\ existingMap = <<>>
    /\ mergeRows = <<>>
    /\ mergePos = 0
    /\ mergeStats = StartStats(mergeFunction)
    /\ mergePc = "start"
    /\ savedFile = <<>>

NextMerge ==
    \/ LoadExisting
    \/ MergeUsername
    \/ MergeLogin
    \/ SaveMerged
    \/ RunMergeAgain

SpecMerge == InitMerge /\ [][NextMerge]_vars

-----------------------------------------------------------------------------
(***************************************************************************)
(* CursorBaseService.safeRequest (lines 85-113), one await per step.       *)
(* requestCalls is the history of what requestFn answered.                 *)
(***************************************************************************)
MaxRetries == 3

\* parseConfig, lines 37-42: options.maxRetries || 3 and options.delayMs || 0,
\* then ...options, which puts the option back as it was given
ConfiguredRetries(given) == IF given = <<>> THEN 3 ELSE given[1]
ConfiguredDelay(given) == IF given = <<>> THEN 0 ELSE given[1]

\* options.maxRetries and options.delayMs: not given, or a number
RetryOptions == {<<>>} \cup {<<n>> : n \in 0..MaxRetries}
DelayOptions == {<<>>, <<0>>, <<50>>}

\* what one call of requestFn does: a response with ok, a response with
\* another status, or a rejection
RequestOutcomes == {"ok", "status429", "status500", "rejected"}

\* the delay slept before the retry that follows a failed attempt (line 106)
RetryDelay(delay, failedAttempt) == delay

\* lines 91-109: one pass of the loop up to its await of sleep
CallRequestFn(outcome) ==
    /\ requestPc = "loop"
    /\ attempt <= maxRetries
    /\ requestCalls' = Append(requestCalls, outcome)
    /\ IF outcome = "ok"
       THEN /\ requestPc' = "returned"
            /\ UNCHANGED <<attempt, lastError>>
       ELSE /\ lastError' = <<outcome>>
            /\ IF attempt < maxRetries /\ delayMs > 0
               THEN /\ requestPc' = "sleep"
                    /\ UNCHANGED attempt
               ELSE /\ attempt' = attempt + 1
                    /\ UNCHANGED requestPc
    /\ UNCHANGED <<maxRetries, delayMs, sleeps, requestThrown, exceptRequest>>

\* line 106: await this.sleep(delayMs), then the next pass
SleepBeforeRetry ==
    /\ requestPc = "sleep"
    /\ sleeps' = Append(sleeps, RetryDelay(delayMs, attempt))
    /\ attempt' = attempt + 1
    /\ requestPc' = "loop"
    /\ UNCHANGED <<maxRetries, delayMs, requestCalls, lastError, requestThrown,
                   exceptRequest>>

\* line 112: the loop is over; lastError.message of an undefined lastError
\* throws TypeError before the Error is built
ThrowAfterLoop ==
    /\ requestPc = "loop"
    /\ attempt > maxRetries
    /\ requestThrown' =
           IF lastError = <<>>
           THEN <<[name |-> "TypeError", attempts |-> 0]>>
           ELSE <<[name |-> "API request failed after N attempts",
                   attempts |-> maxRetries]>>
    /\ requestPc' = "threw"
    /\ UNCHANGED <<maxRetries, delayMs, attempt, requestCalls, sleeps, lastError,
                   exceptRequest>>

InitRequest ==
    /\ NAME_GROUPS = <<>>
    /\ NamesIdle
    /\ RosterIdle
    /\ MetricsIdle
    /\ WindowIdle
    /\ SeatsIdle
    /\ ReportIdle
    /\ RunIdle
    /\ TraversalIdle
    /\ MonthlyIdle
    /\ MergeIdle
    /\ JobsIdle
    /\ ServeIdle
    /\ maxRetries \in {ConfiguredRetries(given) : given \in RetryOptions}
    /\ delayMs \in {ConfiguredDelay(given) : given \in DelayOptions}
    /\ attempt = 1
    /\ requestCalls = <<>>
    /\ sleeps = <<>>
    /\ lastError = <<>>
    /\ requestPc = "loop"
    /\ requestThrown = <<>>

NextRequest ==
    \/ \E outcome \in RequestOutcomes : CallRequestFn(outcome)
    \/ SleepBeforeRetry
    \/ ThrowAfterLoop

SpecRequest == InitRequest /\ [][NextRequest]_vars

-----------------------------------------------------------------------------
(***************************************************************************)
(* The dashboard server (server/index.js): the scheduled data collection  *)
(* (lines 155-199, 382-392, 588-596) and the Cursor daily job (lines       *)
(* 486-499, 517-545).  A handler runs to its end, and a run function runs *)
(* to its next await, without another handler in between; a timestamp is  *)
(* null (FALSE) or set (TRUE).                                             *)
(***************************************************************************)
\* the length the log of a job is cut to (100 at line 160, 300 at line 484)
MaxLogs == 3

\* let scheduledJob / let cursorDailyJob
IdleJob == [running |-> FALSE, started |-> FALSE, finished |-> FALSE, logs |-> <<>>,
            error |-> <<>>, force |-> <<>>]

\* logScheduled / logCursorDaily: push, and shift when over the limit
LogPush(logs, msg) ==
    IF Len(logs) + 1 > MaxLogs THEN Tail(Append(logs, msg)) ELSE Append(logs, msg)

RECURSIVE LogAll(_, _)
LogAll(logs, msgs) ==
    IF msgs = <<>> THEN logs ELSE LogAll(LogPush(logs, Head(msgs)), Tail(msgs))

\* the test of the running flag that never finds a run in progress
NeverRunning(job) == FALSE

\* if (scheduledJob.running) / if (cursorDailyJob.running)
IsRunning(job) == job.running

\* lines 165-172 and 488-490: the run function up to its first await
BeginRun(job, firstLog) ==
    [job EXCEPT !.running = TRUE, !.started = TRUE, !.finished = FALSE,
                !.logs = <<firstLog>>, !.error = <<>>]

\* the catch, when an await rejected, and the finally (lines 186-198, 498-499)
EndRun(job, lastLogs, error) ==
    [job EXCEPT !.logs = LogAll(@, lastLogs),
                !.error = IF error = <<>> THEN @ ELSE error,
                !.running = FALSE, !.finished = TRUE]

RemoveAt(runs, i) == SubSeq(runs, 1, i - 1) \o SubSeq(runs, i + 1, Len(runs))

\* lines 382-392: the cron tick
CronTick ==
    /\ serverAlive
    /\ IF ~IsRunning(scheduledJob)
       THEN /\ scheduledJob' = BeginRun(scheduledJob, "Starting scheduled data collection")
            /\ jobRuns' = [jobRuns EXCEPT !.scheduled = Append(@, "import")]
            /\ lastResponse' = <<[from |-> "cron", status |-> "started"]>>
       ELSE /\ scheduledJob' =
                   [scheduledJob EXCEPT !.logs = LogPush(@, "Cron job skipped")]
            /\ lastResponse' = <<[from |-> "cron", status |-> "skipped"]>>
            /\ UNCHANGED jobRuns
    /\ UNCHANGED <<serverAlive, cursorDailyJob, exceptJobs>>

\* lines 588-596: POST /api/scheduler/trigger
TriggerScheduler ==
    /\ serverAlive
    /\ IF IsRunning(scheduledJob)
       THEN /\ lastResponse' = <<[from |-> "trigger", status |-> "409"]>>
            /\ UNCHANGED <<scheduledJob, jobRuns>>
       ELSE /\ scheduledJob' = BeginRun(scheduledJob, "Starting scheduled data collection")
            /\ jobRuns' = [jobRuns EXCEPT !.scheduled = Append(@, "import")]
            /\ lastResponse' = <<[from |-> "trigger", status |-> "200"]>>
    /\ UNCHANGED <<serverAlive, cursorDailyJob, exceptJobs>>

\* line 175: await import('../../scripts/one-shot-report.js'); when it
\* resolves, runOneShotReport(true) is called (line 176)
ImportSettles(resolved) ==
    /\ serverAlive
    /\ \E i \in 1..Len(jobRuns.scheduled) :
          /\ jobRuns.scheduled[i] = "import"
          /\ IF resolved
             THEN /\ jobRuns' = [jobRuns EXCEPT !.scheduled[i] = "oneShot"]
                  /\ UNCHANGED scheduledJob
             ELSE /\ jobRuns' = [jobRuns EXCEPT !.scheduled = RemoveAt(@, i)]
                  /\ scheduledJob' = EndRun(scheduledJob, <<"ERROR">>, <<"import">>)
    /\ UNCHANGED <<serverAlive, cursorDailyJob, lastResponse, exceptJobs>>

\* line 176: await runOneShotReport(true).  Its body is inside a try whose
\* catch ends with process.exit(1) (bin/ai-metrics-report.js lines 527-559),
\* so the call returns or the process ends; it never rejects.
OneShotSettles(outcome) ==
    /\ serverAlive
    /\ \E i \in 1..Len(jobRuns.scheduled) :
          /\ jobRuns.scheduled[i] = "oneShot"
          /\ IF outcome = "returned"
             THEN /\ jobRuns' = [jobRuns EXCEPT !.scheduled[i] = "snapshot"]
                  /\ scheduledJob' =
                         [scheduledJob EXCEPT
                             !.logs = LogPush(@, "One-shot report completed")]
                  /\ UNCHANGED serverAlive
             ELSE /\ serverAlive' = FALSE
                  /\ UNCHANGED <<jobRuns, scheduledJob>>
    /\ UNCHANGED <<cursorDailyJob, lastResponse, exceptJobs>>

\* lines 181-198: await storeMetricsSnapshot(), which logs and rethrows
\* what it catches (lines 201-227); then the catch and the finally
SnapshotSettles(stored) ==
    /\ serverAlive
    /\ \E i \in 1..Len(jobRuns.scheduled) :
          /\ jobRuns.scheduled[i] = "snapshot"
          /\ jobRuns' = [jobRuns EXCEPT !.scheduled = RemoveAt(@, i)]
          /\ scheduledJob' =
                 IF stored
                 THEN EndRun(scheduledJob,
                             <<"Metrics snapshot saved", "Metrics snapshot stored",
                               "Cycle completed">>, <<>>)
                 ELSE EndRun(scheduledJob, <<"Failed to store metrics snapshot", "ERROR">>,
                             <<"snapshot">>)
    /\ UNCHANGED <<serverAlive, cursorDailyJob, lastResponse, exceptJobs>>

\* lines 517-545: POST /api/cursor-daily-start.  The staleness check of
\* lines 523-540 ends in its catch ("threw"; require is not defined in an
\* ES module), or finds fresh data, or finds none.
CursorDailyStart(tokenPresent, force, check) ==
    /\ serverAlive
    /\ IF ~tokenPresent
       THEN /\ lastResponse' = <<[from |-> "cursorDailyStart", status |-> "400"]>>
            /\ UNCHANGED <<cursorDailyJob, jobRuns>>
       ELSE IF IsRunning(cursorDailyJob)
       THEN /\ lastResponse' = <<[from |-> "cursorDailyStart", status |-> "409"]>>
            /\ UNCHANGED <<cursorDailyJob, jobRuns>>
       ELSE IF ~force /\ check = "fresh"
       THEN /\ cursorDailyJob' =
                   [cursorDailyJob EXCEPT
                       !.force = <<force>>, !.logs = LogPush(@, "Skipped"),
                       !.running = FALSE, !.started = TRUE, !.finished = TRUE]
            /\ lastResponse' = <<[from |-> "cursorDailyStart", status |-> "skipped"]>>
            /\ UNCHANGED jobRuns
       ELSE /\ cursorDailyJob' =
                   BeginRun([cursorDailyJob EXCEPT !.force = <<force>>],
                            "Starting Cursor daily activity fetch")
            /\ jobRuns' = [jobRuns EXCEPT !.cursorDaily = Append(@, "fetch")]
            /\ lastResponse' = <<[from |-> "cursorDailyStart", status |-> "200"]>>
    /\ UNCHANGED <<serverAlive, scheduledJob, exceptJobs>>

\* lines 491-493: the import of fetch.js and fetchDailyActivity({})
CursorFetchSettles(resolved) ==
    /\ serverAlive
    /\ \E i \in 1..Len(jobRuns.cursorDaily) :
          /\ jobRuns.cursorDaily[i] = "fetch"
          /\ IF resolved
             THEN /\ jobRuns' = [jobRuns EXCEPT !.cursorDaily[i] = "csv"]
                  /\ cursorDailyJob' =
                         [cursorDailyJob EXCEPT
                             !.logs = LogAll(@, <<"Daily activity fetch complete",
                                                  "Generating Cursor CSVs">>)]
             ELSE /\ jobRuns' = [jobRuns EXCEPT !.cursorDaily = RemoveAt(@, i)]
                  /\ cursorDailyJob' = EndRun(cursorDailyJob, <<"ERROR">>, <<"fetch">>)
    /\ UNCHANGED <<serverAlive, scheduledJob, lastResponse, exceptJobs>>

\* lines 495-499: the import of aggregate.js and toCSVs(), then the finally
CursorCsvSettles(resolved) ==
    /\ serverAlive
    /\ \E i \in 1..Len(jobRuns.cursorDaily) :
          /\ jobRuns.cursorDaily[i] = "csv"
          /\ jobRuns' = [jobRuns EXCEPT !.cursorDaily = RemoveAt(@, i)]
          /\ cursorDailyJob' =
                 IF resolved
                 THEN EndRun(cursorDailyJob, <<"CSV generation complete">>, <<>>)
                 ELSE EndRun(cursorDailyJob, <<"ERROR">>, <<"csv">>)
    /\ UNCHANGED <<serverAlive, scheduledJob, lastResponse, exceptJobs>>

InitJobs ==
    /\ NAME_GROUPS = <<>>
    /\ NamesIdle
    /\ RosterIdle
    /\ MetricsIdle
    /\ WindowIdle
    /\ SeatsIdle
    /\ ReportIdle
    /\ RunIdle
    /\ TraversalIdle
    /\ MonthlyIdle
    /\ MergeIdle
    /\ RequestIdle
    /\ ServeIdle
    /\ serverAlive = TRUE
    /\ scheduledJob = IdleJob
    /\ cursorDailyJob = IdleJob
    /\ jobRuns = [scheduled |-> <<>>, cursorDaily |-> <<>>]
    /\ lastResponse = <<>>

\* what the event loop does by itself: a pending await of a run of the
\* scheduled job, or of the Cursor daily job, settles
ScheduledAwaitSettles ==
    \/ \E resolved \in BOOLEAN : ImportSettles(resolved)
    \/ \E outcome \in {"returned", "exit1"} : OneShotSettles(outcome)
    \/ \E stored \in BOOLEAN : SnapshotSettles(stored)

CursorAwaitSettles ==
    \/ \E resolved \in BOOLEAN : CursorFetchSettles(resolved)
    \/ \E resolved \in BOOLEAN : CursorCsvSettles(resolved)

NextJobs ==
    \/ CronTick
    \/ TriggerScheduler
    \/ \E tokenPresent \in BOOLEAN, force \in BOOLEAN :
           \E check \in IF force THEN {"none"} ELSE {"threw", "fresh", "stale"} :
               CursorDailyStart(tokenPresent, force, check)
    \/ ScheduledAwaitSettles
    \/ CursorAwaitSettles

SpecJobs == InitJobs /\ [][NextJobs]_vars

\* every await that is pending settles in the end
SpecJobsFair ==
    SpecJobs /\ WF_vars(ScheduledAwaitSettles) /\ WF_vars(CursorAwaitSettles)

-----------------------------------------------------------------------------
(***************************************************************************)
(* The file endpoints of the dashboard server (server/index.js): GET       *)
(* /api/csv (lines 94-104), /view (636-651), /download (772-786) and       *)
(* /report/:filename (653-770).  A path is absolute or relative and a      *)
(* sequence of segments; ".." is the parent directory.  The server runs in *)
(* /app.  The handlers keep no state, so a behaviour holds one request.    *)
(***************************************************************************)
MaxSegments == 3

Segments == {"..", "output", "reports", "a.csv", "r.md", "secret.env"}

\* process.cwd()
WorkingDirectory == <<"app">>

\* the files on disk, as absolute paths
FilesOnDisk ==
    {<<"app", "output", "a.csv">>, <<"app", "output", "reports", "r.md">>,
     <<"app", "secret.env">>}

PathOf(absolute, segs) == [absolute |-> absolute, segs |-> segs]

\* what a query parameter or a decoded route parameter can hold
PathParams ==
    {PathOf(absolute, segs) :
        absolute \in BOOLEAN,
        segs \in UNION {[1..k -> Segments] : k \in 0..MaxSegments}}

\* req.query.root: not given, 'output', '..', or the absolute '/app'
RootParams ==
    {<<>>, <<PathOf(FALSE, <<"output">>)>>, <<PathOf(FALSE, <<"..">>)>>,
     <<PathOf(TRUE, <<"app">>)>>}

\* !param: the parameter is not given or is the empty string
Missing(param) == param = <<>> \/ param[1] = PathOf(FALSE, <<>>)

\* path normalization of the segments of an absolute path: ".." removes the
\* segment before it, and is dropped at the root
RECURSIVE Normalize(_, _)
Normalize(done, rest) ==
    IF rest = <<>> THEN done
    ELSE IF Head(rest) = ".."
         THEN Normalize(IF done = <<>> THEN <<>> ELSE SubSeq(done, 1, Len(done) - 1),
                        Tail(rest))
    ELSE Normalize(Append(done, Head(rest)), Tail(rest))

\* path.resolve(p)
Resolve(p) ==
    IF p.absolute THEN Normalize(<<>>, p.segs)
    ELSE Normalize(<<>>, WorkingDirectory \o p.segs)

\* path.join(absRoot, relativePath) of an absolute absRoot: the segments of
\* relativePath follow those of absRoot, whether or not it starts with "/"
JoinUnder(absRoot, relativePath) == Normalize(<<>>, absRoot \o relativePath.segs)

\* loadSingleCSV, lines 72-77: the file read; <<>> where readFileSync throws
loadSingleCSV(csvRoot, relativePath) ==
    LET full == JoinUnder(Resolve(csvRoot), relativePath)
    IN  IF full \in FilesOnDisk THEN <<full>> ELSE <<>>

\* entry.toLowerCase().endsWith('.csv')
IsCsvName(name) == name = "a.csv"

\* loadCSVIndex, lines 65-70: relPath of the CSV files below the root
loadCSVIndex(csvRoot) ==
    LET abs == Resolve(csvRoot)
    IN  {PathOf(FALSE, SubSeq(f, Len(abs) + 1, Len(f))) :
            f \in {g \in FilesOnDisk :
                      /\ Len(g) > Len(abs)
                      /\ SubSeq(g, 1, Len(abs)) = abs
                      /\ IsCsvName(g[Len(g)])}}

Response(status, file) == [status |-> status, file |-> file]

\* GET /api/csv, lines 94-104
GetApiCsv(rootParam, pathParam) ==
    /\ serveRequest = <<>>
    /\ serveRequest' = <<[endpoint |-> "/api/csv", root |-> rootParam,
                          path |-> pathParam]>>
    /\ serveResponse' =
           LET root == IF Missing(rootParam)
                       THEN PathOf(FALSE, <<"output">>) ELSE rootParam[1]
           IN  IF Missing(pathParam)
               THEN <<Response(400, <<>>)>>
               ELSE LET text == loadSingleCSV(root, pathParam[1])
                    IN  IF text = <<>> THEN <<Response(404, <<>>)>>
                        ELSE <<Response(200, text)>>
    /\ UNCHANGED exceptServe

\* GET /view and GET /download, lines 636-651 and 772-786
GetIndexedCsv(endpoint, pathParam) ==
    /\ serveRequest = <<>>
    /\ serveRequest' = <<[endpoint |-> endpoint, root |-> <<>>, path |-> pathParam]>>
    /\ serveResponse' =
           LET root == PathOf(FALSE, <<"output">>)
           IN  IF Missing(pathParam)
               THEN <<Response(400, <<>>)>>
               ELSE IF pathParam[1] \notin loadCSVIndex(root)
               THEN <<Response(404, <<>>)>>
               ELSE LET text == loadSingleCSV(root, pathParam[1])
                    IN  IF text = <<>> THEN <<Response(500, <<>>)>>
                        ELSE <<Response(200, text)>>
    /\ UNCHANGED exceptServe

\* existsSync(reportPath): a file or a directory on disk
ExistsOnDisk(full) ==
    \E f \in FilesOnDisk : Len(f) >= Len(full) /\ SubSeq(f, 1, Len(full)) = full

\* GET /report/:filename, lines 653-770; the route parameter is one
\* segment of the URL, percent-decoded, so it can hold "/" and ".."
GetReport(filename) ==
    /\ serveRequest = <<>>
    /\ filename # PathOf(FALSE, <<>>)
    /\ serveRequest' = <<[endpoint |-> "/report", root |-> <<>>,
                          path |-> <<filename>>]>>
    /\ serveResponse' =
           LET reportPath == JoinUnder(Resolve(PathOf(FALSE, <<"output", "reports">>)),
                                       filename)
           IN  IF ~ExistsOnDisk(reportPath) THEN <<Response(404, <<>>)>>
               ELSE IF reportPath \notin FilesOnDisk THEN <<Response(500, <<>>)>>
               ELSE <<Response(200, <<reportPath>>)>>
    /\ UNCHANGED exceptServe

InitServe ==
    /\ NAME_GROUPS = <<>>
    /\ NamesIdle
    /\ RosterIdle
    /\ MetricsIdle
    /\ WindowIdle
    /\ SeatsIdle
    /\ ReportIdle
    /\ RunIdle
    /\ TraversalIdle
    /\ MonthlyIdle
    /\ MergeIdle
    /\ RequestIdle
    /\ JobsIdle
    /\ serveRequest = <<>>
    /\ serveResponse = <<>>

NextServe ==
    \/ \E rootParam \in RootParams, pathParam \in {<<>>} \cup {<<p>> : p \in PathParams} :
           GetApiCsv(rootParam, pathParam)
    \/ \E endpoint \in {"/view", "/download"},
          pathParam \in {<<>>} \cup {<<p>> : p \in PathParams} :
           GetIndexedCsv(endpoint, pathParam)
    \/ \E filename \in PathParams : GetReport(filename)

SpecServe == InitServe /\ [][NextServe]_vars

-----------------------------------------------------------------------------
(***************************************************************************)
(* Claims                                                                  *)
(***************************************************************************)

\* the last white-space-delimited token of a name; <<>> when it has none
LastToken(s) ==
    LET tokens == SelectSeq(SplitSpace(s), LAMBDA t : t # <<>>)
    IN  IF tokens = <<>> THEN <<>> ELSE tokens[Len(tokens)]

RosterNodeNames == {organization[i].name : i \in 1..Len(organization)}

\* C1: a lookup name is kept by the roster filter only if some roster name
\* has the same last white-space-delimited token (names compared after
\* normalizeText): names whose last tokens differ are never matched.
C1_SurnameGate ==
    rosterPc = "filtered" =>
        \A i \in 1..Len(filteredUsers) :
            \E r \in RosterNodeNames :
                LastToken(normalizeText(r)) = LastToken(normalizeText(filteredUsers[i]))

\* C2: areNameVariations(a, b) = areNameVariations(b, a) for every pair of
\* names and every loaded table.
C2_Symmetric ==
    variationResult # <<>> => variationResult[1] = variationResult[2]

\* C2 witness: a call on two different names that the table makes variations
C2_Witness ==
    /\ variationResult = <<TRUE, TRUE>>
    /\ Trim(ToLowerCase(name1)) # Trim(ToLowerCase(name2))

ObservedDays ==
    {iso(parseDate(monthlyActivity.rows[i].date)) :
        i \in {j \in 1..Len(monthlyActivity.rows) :
                  parseDate(monthlyActivity.rows[j].date).valid}}

MinOf(S) == CHOOSE x \in S : \A y \in S : x <= y
MaxOf(S) == CHOOSE x \in S : \A y \in S : y <= x

\* C4 as stated: in a written window summary, every user's presenceRate is a
\* number that is at most 1.0 (10000 ten-thousandths).
C4_PresenceRateAtMostOne ==
    windowOutcome = "written" =>
        \A i \in 1..Len(windowCsv) :
            /\ windowCsv[i].presenceRate.kind = "num"
            /\ windowCsv[i].presenceRate.v <= 10000

\* C5 as stated: in a written window summary, windowDays is the number of
\* days from the earliest to the latest observed date, plus one, and the
\* window runs from the earliest to the latest observed date.
C5_WindowDays ==
    windowOutcome = "written" =>
        \A i \in 1..Len(windowCsv) :
            /\ windowCsv[i].windowDays = MaxOf(ObservedDays) - MinOf(ObservedDays) + 1
            /\ windowCsv[i].windowStart = MinOf(ObservedDays)
            /\ windowCsv[i].windowEnd = MaxOf(ObservedDays)

\* the numeric output of a run of getActiveUsersInPastDays: everything but
\* the time stamp analyzedAt
NumericOutput(run) ==
    IF run.outcome = "threw" THEN <<>>
    ELSE <<run.analysis[1].totalSeats, run.analysis[1].activeUsers,
           run.analysis[1].inactiveUsers, run.analysis[1].teamAnalysis,
           run.analysis[1].analysisConfig.cutoffDate>>

\* C6 as stated: two runs over the same snapshot that start from the same
\* "now" return the same numeric output, in both analyses.
C6_SameNowSameOutput ==
    /\ \A i, j \in 1..Len(copilotRuns) : copilotRuns[i] = copilotRuns[j]
    /\ \A i, j \in 1..Len(pastDaysRuns) :
          NumericOutput(pastDaysRuns[i]) = NumericOutput(pastDaysRuns[j])

\* the seats whose last activity is absent or is no date
SeatsWithoutDate ==
    {i \in 1..Len(seatList) : seatList[i].last_activity_at.type \in {"absent", "garbage"}}

\* C7 as stated: in every run of either analysis, a seat whose last activity
\* is absent or unparseable does not end the run, is inactive and not
\* active, and is counted in the totals.
C7_UndatedSeatInactive ==
    \A i \in SeatsWithoutDate :
        /\ \A r \in 1..Len(copilotRuns) :
              /\ i \in copilotRuns[r].inactiveLogins
              /\ i \notin copilotRuns[r].activeLogins
              /\ ~copilotRuns[r].activityMap[i].isActive
        /\ \A r \in 1..Len(pastDaysRuns) :
              /\ pastDaysRuns[r].outcome = "returned"
              /\ LET a == pastDaysRuns[r].analysis[1]
                 IN  /\ \E k \in 1..Len(a.inactiveUsers.users) :
                           a.inactiveUsers.users[k].login = i
                     /\ \A k \in 1..Len(a.activeUsers.users) :
                           a.activeUsers.users[k].login # i
                     /\ a.totalSeats = Len(seatList)
                     /\ a.activeUsers.count + a.inactiveUsers.count = a.totalSeats

\* C8 as stated: a missing or unparseable activity snapshot of one platform
\* never makes the active-users report fail, and the platform's counters in
\* a written report are zero.
C8_SnapshotOptional ==
    reportKind = "activeUsers" =>
       /\ reportPc = "threw" =>
             reportFiles.roster # "ok" \/ reportFiles.lookup # "ok"
       /\ reportPc = "done" /\ reportResult.canonical # <<>> =>
             /\ reportFiles.copilot # "ok" =>
                   /\ reportStats[1].activeCopilotUsers = 0
                   /\ reportResult.canonical[1].inactiveCopilotUsers = 0
             /\ reportFiles.cursor # "ok" =>
                   /\ reportStats[1].activeCursorUsers = 0
                   /\ reportResult.canonical[1].inactiveCursorUsers = 0

\* C9: once a run is past its fetch steps (prerequisites, prompt, a report
\* step called, summary), every fetch step has settled, and no fetch step
\* is running while a report step is.
C9_FetchesSettledFirst ==
    (\/ runPc \in {"prereq", "prompt", "summary", "returned", "cancelled"}
     \/ \E r \in ReportSteps : stepStatus[r] # "notStarted")
    => \A f \in FetchSteps : stepStatus[f] \in {"ok", "failed"}

\* C9 witness: a report step is running after one fetch failed and the
\* others succeeded
C9_Witness ==
    /\ runPc = "await"
    /\ stepStatus["activeUsers"] = "running"
    /\ stepStatus["seats"] = "failed"
    /\ stepStatus["metrics"] = "ok"
    /\ stepStatus["cursor"] = "ok"

\* C10: a fetch step that failed never ends the run: when the run has ended
\* after such a failure, every other fetch step was called, and unless the
\* user declined the overwrite prompt the report generation was called too.
C10_FailedFetchIsNotFatal ==
    \A f \in FetchSteps :
        stepStatus[f] = "failed" /\ runPc \in {"returned", "cancelled", "exit1"} =>
            /\ \A g \in FetchSteps : stepStatus[g] # "notStarted"
            /\ runPc # "cancelled" => stepStatus["activeUsers"] # "notStarted"

\* C10 witness: the run returned with reports generated although the GitHub
\* metrics fetch failed, and the Cursor fetch ran after it
C10_Witness ==
    /\ runPc = "returned"
    /\ stepStatus["metrics"] = "failed"
    /\ stepStatus["cursor"] = "ok"
    /\ stepStatus["activeUsers"] = "ok"
    /\ stepStatus["adoption"] = "ok"

C12_DeclinedWritesNothing ==
    reportPc = "done" /\ promptResponse # <<>>
                     /\ LowerResponse(promptResponse[1]) \notin {"y", "yes"} =>
       /\ reportResult.returned = [cancelled |-> TRUE]
       /\ reportResult.timestamped = <<>>
       /\ reportResult.canonical = <<>>

\* C12 witness: the adoption report was cancelled at the prompt by an n
C12_Witness ==
    /\ reportPc = "done"
    /\ reportKind = "adoption"
    /\ promptResponse = <<"n">>
    /\ reportResult.returned = [cancelled |-> TRUE]
    /\ reportResult.canonical = <<>>

\* C13: an entry point writes both files or neither, and the canonical file
\* and the timestamped copy of a run hold the same content.
C13_SameContentInBothFiles ==
    reportPc = "done" =>
       /\ reportResult.canonical = <<>> <=> reportResult.timestamped = <<>>
       /\ reportResult.canonical = reportResult.timestamped

\* C13 witness: each of the three reports has been written, the adoption
\* report after the user confirmed the overwrite
C13_Witness ==
    /\ reportPc = "done"
    /\ reportKind = "adoption"
    /\ promptResponse = <<"YES">>
    /\ reportResult.canonical # <<>>
    /\ reportResult.canonical[1].stats.totalPeople = 2

\* C14 as stated: an entry point that completed returned {cancelled: true}
\* or an object with the keys outputPath, timestampedPath and stats.
C14_ReturnShape ==
    reportPc = "done" =>
       \/ reportResult.returned = [cancelled |-> TRUE]
       \/ {"outputPath", "timestampedPath", "stats"} \subseteq
              DOMAIN reportResult.returned

\* C15 as stated: when the roster file or the lookup file is missing or
\* does not parse, an entry point that loads them throws and writes no
\* report.
C15_RosterAndLookupRequired ==
    /\ reportKind \in {"activeUsers", "adoption"}
    /\ reportFiles.roster # "ok" \/ reportFiles.lookup # "ok"
    => /\ reportPc \in {"start", "threw"}
       /\ reportResult = <<>>

\* the lower-cased names of a group
GroupKeys(group) == {ToLowerCase(group[i]) : i \in 1..Len(group)}

\* C16 as stated: in the table an import has loaded, no name belongs to two
\* groups.
C16_GroupsDisjoint ==
    loaderPc = "loaded" /\ nameGroupsFile # <<>> =>
       \A g, h \in 1..Len(NAME_GROUPS) :
          g # h => GroupKeys(NAME_GROUPS[g]) \cap GroupKeys(NAME_GROUPS[h]) = {}

\* the file holds a JSON array of arrays of strings
WellFormedGroupsFile ==
    /\ nameGroupsFile.file = "json"
    /\ \E t \in GroupTables : nameGroupsFile.value = GroupsJson(t)

\* C17 as stated: when name-groups.json is missing or is no JSON array of
\* arrays of strings, the import succeeds with an empty table, and
\* areNameVariations answers by exact match of the trimmed lower-cased names.
C17_FallbackToEmptyTable ==
    loaderPc # "start" /\ nameGroupsFile # <<>> /\ ~WellFormedGroupsFile =>
       /\ loaderPc = "loaded"
       /\ NAME_GROUPS = <<>>
       /\ variationResult # <<>> =>
             variationResult[1] =
                 (/\ name1 # <<>>
                  /\ name2 # <<>>
                  /\ Trim(ToLowerCase(name1)) = Trim(ToLowerCase(name2)))

\* the nodes a traversal from the organization array reaches in at most k
\* steps down
RECURSIVE ReachableWithin(_)
ReachableWithin(k) ==
    IF k = 0 THEN {1}
    ELSE LET before == ReachableWithin(k - 1)
         IN  before \cup UNION {{rosterGraph.reports[n][i] :
                                     i \in 1..Len(rosterGraph.reports[n])} :
                                  n \in before}

\* C18 as stated: the Set extractOrgUsers returns holds the normalized name
\* of every named node of the roster, at any depth.
C18_EveryNodeFlattened ==
    traversalPc = "returned" /\ traversal = "extractOrgUsers" =>
       \A n \in 1..MaxNodes :
          /\ n \in ReachableWithin(MaxNodes)
          /\ rosterGraph.names[n]
          => normalizeText(NodeName(n)) \in collected

\* C19 as stated: no traversal of a roster, cyclic or not, exhausts the call
\* stack; each one returns.
C19_CyclicRosterTerminates == traversalPc # "stackOverflow"

\* C20 as stated: in the monthly totals, totalDays of a user and month is
\* the number of that user's days of that month found in the files read,
\* each day counted once however many files hold it, and daysActive does
\* not exceed it.
C20_OverlappingFilesCountOnce ==
    \A key \in DOMAIN monthlyRecords :
       LET days == {seen \in UNION {snapshotDays[f] : f \in 1..Len(snapshotDays)} :
                       seen.user = key[1] /\ seen.month = key[2]}
       IN  /\ monthlyRecords[key].totalDays = Cardinality(days)
           /\ monthlyRecords[key].daysActive <= Cardinality(days)

\* the fields of a CSV line read with the quoting of RFC 4180: a comma
\* between double quotes belongs to the field
RECURSIVE CsvScan(_, _, _)
CsvScan(rest, field, quoted) ==
    IF rest = <<>> THEN <<field>>
    ELSE IF Head(rest) = QT THEN CsvScan(Tail(rest), field, ~quoted)
    ELSE IF Head(rest) = CM /\ ~quoted
         THEN <<field>> \o CsvScan(Tail(rest), <<>>, FALSE)
    ELSE CsvScan(Tail(rest), Append(field, Head(rest)), quoted)

\* the second cells of the rows of a login in a file, header excluded
CellsOf(lines, login) ==
    {Trim(PartAt(CsvScan(lines[i], <<>>, FALSE), 2)) :
        i \in {j \in 2..Len(lines) :
                  Trim(PartAt(CsvScan(lines[j], <<>>, FALSE), 1)) = login}}

\* C21: re-running the user-lookup merge never overwrites an existing
\* non-empty name: the name of a login in the file written is the one the
\* file held unless that one was blank, in which case it is the blank or
\* the name fetched, and every login of the seat files has a row.
C21_ExistingNamesKept ==
    (mergeFunction = "generateUserLookupCSV" /\ mergePc = "done") =>
        /\ existingFile # <<>> =>
               \A login \in Logins :
                   \A name \in CellsOf(existingFile[1], login) :
                       IF name # <<>> THEN CellsOf(savedFile, login) = {name}
                       ELSE CellsOf(savedFile, login)
                                \subseteq {<<>>, NewName(nameCache, login)}
        /\ \A i \in 1..Len(mergeLogins) : CellsOf(savedFile, mergeLogins[i]) # {}

\* C22: rebuilding the login-email map preserves every existing non-empty
\* email: a login whose row held an email has a row with that email in the
\* file written.
C22_ExistingEmailsKept ==
    (mergeFunction = "buildLoginEmailMap" /\ mergePc = "done"
     /\ existingFile # <<>>) =>
        \A login \in Logins :
            \A email \in CellsOf(existingFile[1], login) :
                email # <<>> => CellsOf(savedFile, login) = {email}

\* midnight of the local day of an instant
StartOfDay(t) == (t \div HoursPerDay) * HoursPerDay

\* C23: the activity cutoff is now minus the lookback days, normalized to
\* the start of the day: a seat with a dated last activity is active in a
\* run of analyzeCopilotActivity exactly when that activity is not before
\* the start of the day seven days before now, and the cutoff a run of
\* getActiveUsersInPastDays reports is that start of day.
C23_CutoffAtStartOfDay ==
    LET cutoff == StartOfDay(seatNow - LookbackDays * HoursPerDay)
    IN  /\ \A r \in 1..Len(copilotRuns) :
               \A i \in 1..Len(copilotRuns[r].activityMap) :
                   LET entry == copilotRuns[r].activityMap[i]
                   IN  entry.lastActivity.type = "iso" =>
                           (entry.isActive <=> entry.lastActivity.t >= cutoff)
        /\ \A r \in 1..Len(pastDaysRuns) :
               pastDaysRuns[r].outcome = "returned" =>
                   pastDaysRuns[r].analysis[1].analysisConfig.cutoffDate = cutoff

\* a record with its required keys and a timestamp that parses
WellFormedRecord(record) == record.userId # "" /\ parseDate(record.date).valid

\* C24: a malformed record (a missing key, a timestamp that does not parse)
\* in a file that also holds well-formed records is skipped and never
\* aborts the aggregation: the summary is written, and it is the summary of
\* the well-formed records.
C24_MalformedRecordSkipped ==
    (/\ windowPc # "start"
     /\ monthlyActivity.kind = "array"
     /\ \E i \in 1..Len(monthlyActivity.rows) :
            WellFormedRecord(monthlyActivity.rows[i])) =>
        /\ windowOutcome = "written"
        /\ windowCsv = SummariseWindow(SelectSeq(monthlyActivity.rows, WellFormedRecord),
                                       timeZone).lines

\* C25: retries use exponential backoff: the delay slept before each
\* successive retry of a failed request is longer than the one before it.
C25_DelaysGrow ==
    \A i \in 2..Len(sleeps) : sleeps[i] > sleeps[i - 1]

\* C28: safeRequest invokes requestFn at most maxRetries times, returns the
\* first response with ok = true without a further attempt, and otherwise
\* throws the 'API request failed after N attempts' error, N = maxRetries,
\* once the attempts are exhausted.
C28_BoundedAttempts ==
    /\ Len(requestCalls) <= maxRetries
    /\ \A i \in 1..Len(requestCalls) :
           requestCalls[i] = "ok" => (i = Len(requestCalls) /\ requestPc = "returned")
    /\ requestPc = "returned" => requestCalls[Len(requestCalls)] = "ok"
    /\ requestPc = "threw" =>
           /\ Len(requestCalls) = maxRetries
           /\ requestThrown = <<[name |-> "API request failed after N attempts",
                                attempts |-> maxRetries]>>

\* C26: at most one run of a dashboard job is in progress at any time: a
\* trigger request or a cron tick that arrives while the job's running
\* flag is set starts no second run.
C26_OneRunPerJob ==
    serverAlive =>
        /\ Len(jobRuns.scheduled) <= 1
        /\ Len(jobRuns.cursorDaily) <= 1
        /\ scheduledJob.running <=> Len(jobRuns.scheduled) = 1
        /\ cursorDailyJob.running <=> Len(jobRuns.cursorDaily) = 1

\* a start request was refused, or a cron tick skipped, while the run it
\* met was still in progress
C26_Witness ==
    /\ serverAlive
    /\ lastResponse # <<>>
    /\ \/ /\ lastResponse[1].from \in {"cron", "trigger"}
          /\ lastResponse[1].status \in {"skipped", "409"}
          /\ Len(jobRuns.scheduled) = 1
       \/ /\ lastResponse[1].from = "cursorDailyStart"
          /\ lastResponse[1].status = "409"
          /\ Len(jobRuns.cursorDaily) = 1

\* C27: every scheduled data-collection run that starts returns the job to
\* idle in the end: running is false again and finished is set.
C27_RunReturnsToIdle ==
    (serverAlive /\ scheduledJob.running)
        ~> (~scheduledJob.running /\ scheduledJob.finished)

\* the path is below the directory (or is the directory)
IsUnder(full, directory) ==
    Len(full) >= Len(directory) /\ SubSeq(full, 1, Len(directory)) = directory

\* C29: every file endpoint of the dashboard returns only the content of
\* files under its intended root, the output tree, or output/reports for
\* /report: no request parameter makes it read a file outside that root.
C29_ServedFromRoot ==
    (serveResponse # <<>> /\ serveResponse[1].status = 200) =>
        IsUnder(serveResponse[1].file[1],
                IF serveRequest[1].endpoint = "/report"
                THEN <<"app", "output", "reports">> ELSE <<"app", "output">>)

\* a finite number from 0 to the whole, both included
InPercentRange(n, whole) == n.kind = "num" /\ n.v >= 0 /\ n.v <= whole

\* C30: every reported activity percentage is a finite number between 0
\* and 100: the shares of active and inactive seats, org-wide and per team,
\* of a returned getActiveUsersInPastDays, and the weekly-active share of
\* the roster and the engineering shares of an active-users report.
C30_PercentagesInRange ==
    /\ \A r \in 1..Len(pastDaysRuns) :
           pastDaysRuns[r].outcome = "returned" =>
               LET a == pastDaysRuns[r].analysis[1]
               IN  /\ InPercentRange(a.activeUsers.percentage, 100)
                   /\ InPercentRange(a.inactiveUsers.percentage, 100)
                   /\ \A slug \in DOMAIN a.teamAnalysis :
                          /\ InPercentRange(a.teamAnalysis[slug].activeUsers.percentage,
                                            100)
                          /\ InPercentRange(a.teamAnalysis[slug].inactiveUsers.percentage,
                                            100)
    /\ (reportKind = "activeUsers" /\ reportStats # <<>>) =>
           InPercentRange(reportStats[1].weeklyActivePercentage, 1000)
    /\ (reportKind = "activeUsers" /\ reportPc = "done"
        /\ reportResult.canonical # <<>>) =>
           /\ InPercentRange(reportResult.canonical[1].engineeringActiveShare, 1000)
           /\ InPercentRange(reportResult.canonical[1].engineeringICsActiveShare, 1000)

====
